---- MODULE Spec2Model ----
(***************************************************************************)
(* A model of libkbfs' conflict resolver driver (ConflictResolver:        *)
(* processInput, Resolve, Wait, Shutdown, doResolve, updateCurrInput) and  *)
(* of the indirect-file data engine (fileData).                            *)
(***************************************************************************)
EXTENDS Integers, Sequences, FiniteSets, TLC

(***************************************************************************)
(* Bounds of the model.                                                    *)
(***************************************************************************)
\* Revisions handed to Resolve and returned by getMDs range over 1..MaxRev.
MaxRev == 2
\* Number of Resolve calls.
MaxInputs == 2

\* Offsets of write and read calls range over 0..MaxOff.
MaxOff == 5
\* Lengths of the data written and of the buffers read range over 1..MaxLen.
MaxLen == 3
\* The splitter's leaf capacity ranges over 1..MaxCap.
MaxCap == 3
\* bsplit.MaxPtrsPerBlock() ranges over 2..MaxPtrs.
MaxPtrs == 3
\* Number of write calls.
MaxWrites == 1
\* Number of calls that change the file, where any of them can be made.
MaxOps == 2
\* The greatest number of ops of a chain.
MaxChainOps == 2
\* The directories of a resolution are 1..MaxDirs, the root being 1.
MaxDirs == 4
\* The most fetches one read's deadline ends.
MaxLate == 1
\* The most leaves of a file written byte after byte.
MaxLeaves == 7

\* MetadataRevisionUninitialized, the sentinel NewConflictResolver installs.
MetadataRevisionUninitialized == 0

Revs == 1..MaxRev

VARIABLES
    \* ---- ConflictResolver ----
    currInput,      \* cr.currInput: [unmerged, merged]
    shutdown,       \* cr.shutdown
    chanClosed,     \* close(cr.inputChan) has happened
    inputGroup,     \* cr.inputGroup's counter
    inputs,         \* every conflictInput a Resolve call has added, in call
                    \* order, with the position of its send and of its task
    consumerPc,     \* processInput's position
    ci,             \* the input processInput holds (index into inputs, 0: none)
    cancel,         \* processInput's cancel: the task it cancels (0: nil)
    shutdownPc,     \* the Shutdown call's position
    waitPc,         \* the Wait call's position
    waitCtxDone,    \* Wait's ctx is canceled
    waitSignalled,  \* Wait's goroutine has passed inputGroup.Wait() and sent on c
    waitLen,        \* the number of Resolve calls made when Wait was called
    waitCtxFirst,   \* Wait's ctx was canceled before its goroutine sent on c
    \* ---- fileData ----
    fdBlocks,       \* the blocks the getter returns: BlockPointer -> FileBlock
    fdDirty,        \* the pointers the cacher was called for
    fdNextID,       \* the next temporary block ID crypto hands out
    fdDe,           \* the file's DirEntry: [Size, EncodedSize]
    fdMaxSize,      \* the block splitter's capacity of a leaf block
    fdMaxPtrs,      \* bsplit.MaxPtrsPerBlock()
    fdWrites,       \* the number of write calls made
    fdOps,          \* the number of calls made that change the file
    fdW,            \* the last call that changes the file, the file it was
                    \* made on, and what it returned
    fdR,            \* the last read call and what it returned
    \* ---- the chains and paths of a resolution ----
    rcChains,       \* unmergedChains.byOriginal: original -> [mostRecent, ops]
    rcRenamed,      \* unmergedChains.renamedOriginals: original -> renameInfo
    rcMergedPaths,  \* mergedPaths: most recent unmerged pointer -> path
    rcCall,         \* the last call on the chains, the chains it was made
                    \* on, and what it returned
    rcMerged,       \* mergedChains: [deleted, mostRecent, renamed] by original,
                    \* and found, the merged path of a most recent pointer
    rcPaths         \* the unmerged paths of the resolution

crVars == <<currInput, shutdown, chanClosed, inputGroup, inputs, consumerPc, ci,
            cancel, shutdownPc, waitPc, waitCtxDone, waitSignalled,
            waitLen, waitCtxFirst>>

fdVars == <<fdBlocks, fdDirty, fdNextID, fdDe, fdMaxSize, fdMaxPtrs, fdWrites,
            fdOps, fdW, fdR>>

rcVars == <<rcChains, rcRenamed, rcMergedPaths, rcCall, rcMerged, rcPaths>>

vars == <<crVars, fdVars, rcVars>>

Ids == 1..Len(inputs)

(***************************************************************************)
(* FileBlock, IndirectFilePtr and the file's root pointer.                 *)
(***************************************************************************)
\* fd.rootBlockPointer(): the tail pointer of the file's path.
RootPtr == 1

\* &FileBlock{}: a direct block without contents.
EmptyBlock == [IsInd |-> FALSE, IPtrs |-> <<>>, Contents |-> <<>>]

\* IndirectFilePtr{BlockInfo{BlockPointer, EncodedSize: 0}, Off}.
IndirectFilePtr(ptr, off) ==
    [BlockPointer |-> ptr, EncodedSize |-> 0, Off |-> off, Holes |-> FALSE]

\* No write or read call was made yet.
NoCall == [op |-> "none"]

(***************************************************************************)
(* conflictInput and the helpers of processInput / updateCurrInput.        *)
(***************************************************************************)
conflictInput(u, m) == [unmerged |-> u, merged |-> m]

\* The record the model keeps per Resolve call: the input, where it is
\* (st), its task's position (tpc) and whether the task's ctx is canceled.
NewInput(u, m) ==
    [unmerged |-> u, merged |-> m, st |-> "sending", tpc |-> "none",
     canceled |-> FALSE]

\* What is left of an input once it is discarded or its doResolve has
\* returned: the program keeps nothing of it.
Gone(how) ==
    [unmerged |-> 0, merged |-> 0, st |-> how, tpc |-> "none",
     canceled |-> FALSE]

\* A filter that wants both revisions to be greater.
InterestingBoth(c, cur) == c.unmerged > cur.unmerged /\ c.merged > cur.merged

\* processInput's test, negated: the input is interesting.
Interesting(c, cur) == ~(c.unmerged <= cur.unmerged /\ c.merged <= cur.merged)

\* A cancel that cancels nothing.
CancelNothing(ins, k) == ins

\* cancel(): the context of task k is canceled (a nil cancel does nothing,
\* and nothing reads the context of a task that has returned).
CancelTask(ins, k) ==
    IF k = 0 \/ ins[k].st # "running" THEN ins
    ELSE [ins EXCEPT ![k].canceled = TRUE]

\* inputGroup.Done()
Done(n) == n - 1

\* An updateCurrInput without the deferred function that restores prevInput.
BoundInputNoReset(cur, revU, revM) ==
    LET raised == [cur EXCEPT !.unmerged = revU]
    IN  IF revU < cur.unmerged THEN [err |-> TRUE, cur |-> cur]
        ELSE IF revM < raised.merged THEN [err |-> TRUE, cur |-> raised]
        ELSE [err |-> FALSE, cur |-> [raised EXCEPT !.merged = revM]]

\* An updateCurrInput without its two revision checks.
BoundInputNoCheck(cur, revU, revM) ==
    [err |-> FALSE, cur |-> [unmerged |-> revU, merged |-> revM]]

\* updateCurrInput's body after the cancellation check: the new currInput and
\* whether it returned an error (the deferred function restores prevInput).
BoundInput(cur, revU, revM) ==
    LET prevInput == cur
        raised == [cur EXCEPT !.unmerged = revU]
    IN  IF revU < cur.unmerged THEN [err |-> TRUE, cur |-> prevInput]
        ELSE IF revM < raised.merged THEN [err |-> TRUE, cur |-> prevInput]
        ELSE [err |-> FALSE, cur |-> [raised EXCEPT !.merged = revM]]

(***************************************************************************)
(* NewConflictResolver                                                     *)
(***************************************************************************)
NewConflictResolver ==
    /\ currInput = conflictInput(MetadataRevisionUninitialized,
                                 MetadataRevisionUninitialized)
    /\ shutdown = FALSE
    /\ chanClosed = FALSE
    /\ inputGroup = 0
    /\ inputs = <<>>
    /\ consumerPc = "recv"
    /\ ci = 0
    /\ cancel = 0
    /\ shutdownPc = "idle"
    /\ waitPc = "idle"
    /\ waitCtxDone = FALSE
    /\ waitSignalled = FALSE
    /\ waitLen = 0
    /\ waitCtxFirst = FALSE

\* The resolver next to a file nobody touches.
InitCR ==
    /\ NewConflictResolver
    /\ fdBlocks = (RootPtr :> EmptyBlock)
    /\ fdDirty = {}
    /\ fdNextID = RootPtr + 1
    /\ fdDe = [Size |-> 0, EncodedSize |-> 0]
    /\ fdMaxSize = 1
    /\ fdMaxPtrs = 2
    /\ fdWrites = 0
    /\ fdOps = 0
    /\ fdW = NoCall
    /\ fdR = NoCall
    /\ rcChains = <<>>
    /\ rcRenamed = <<>>
    /\ rcMergedPaths = <<>>
    /\ rcCall = NoCall
    /\ rcMerged = <<>>
    /\ rcPaths = {}

(***************************************************************************)
(* Resolve                                                                 *)
(***************************************************************************)
\* shutdownLock.RLock (not granted while Shutdown waits for the lock), the
\* shutdown check and inputGroup.Add(1); the call then blocks in the send.
ResolveAdd ==
    /\ shutdownPc # "waiting"
    /\ ~shutdown
    /\ Len(inputs) < MaxInputs
    /\ \E u \in Revs, m \in Revs : inputs' = Append(inputs, NewInput(u, m))
    /\ inputGroup' = inputGroup + 1
    /\ UNCHANGED <<fdVars, rcVars, currInput, shutdown, chanClosed, consumerPc, ci, cancel,
                   shutdownPc, waitPc, waitCtxDone, waitSignalled,
                   waitLen, waitCtxFirst>>

\* Resolve on a resolver that is shut down returns at once.
ResolveRefused ==
    /\ shutdownPc # "waiting"
    /\ shutdown
    /\ Len(inputs) < MaxInputs
    /\ inputs' = Append(inputs, Gone("refused"))
    /\ UNCHANGED <<fdVars, rcVars, currInput, shutdown, chanClosed, inputGroup,
                   consumerPc, ci, cancel, shutdownPc, waitPc, waitCtxDone,
                   waitSignalled, waitLen, waitCtxFirst>>

(***************************************************************************)
(* processInput                                                            *)
(***************************************************************************)
\* `for ci := range cr.inputChan` meets a blocked `cr.inputChan <- ci`: the
\* consumer holds the input and that Resolve call returns.
ProcessInputRecv ==
    /\ consumerPc = "recv"
    /\ ~chanClosed
    /\ \E i \in Ids :
        /\ inputs[i].st = "sending"
        /\ inputs' = [inputs EXCEPT ![i].st = "dequeued"]
        /\ ci' = i
    /\ consumerPc' = "filter"
    /\ UNCHANGED <<fdVars, rcVars, currInput, shutdown, chanClosed, inputGroup, cancel,
                   shutdownPc, waitPc, waitCtxDone, waitSignalled,
                   waitLen, waitCtxFirst>>

\* A filter that accepts without installing the input as currInput.
ProcessInputFilterNoInstall ==
    /\ consumerPc = "filter"
    /\ IF Interesting(inputs[ci], currInput)
       THEN /\ inputs' = [CancelTask(inputs, cancel) EXCEPT ![ci].st = "accepted"]
            /\ consumerPc' = "start"
       ELSE /\ consumerPc' = "discard"
            /\ UNCHANGED inputs
    /\ UNCHANGED <<fdVars, rcVars, currInput, shutdown, chanClosed, inputGroup, ci, cancel,
                   shutdownPc, waitPc, waitCtxDone, waitSignalled, waitLen,
                   waitCtxFirst>>

\* The `valid` closure, under inputLock.
ProcessInputFilter ==
    /\ consumerPc = "filter"
    /\ IF Interesting(inputs[ci], currInput)
       THEN /\ currInput' = conflictInput(inputs[ci].unmerged, inputs[ci].merged)
            /\ inputs' = [CancelTask(inputs, cancel) EXCEPT ![ci].st = "accepted"]
            /\ consumerPc' = "start"
       ELSE /\ consumerPc' = "discard"
            /\ UNCHANGED <<currInput, inputs>>
    /\ UNCHANGED <<fdVars, rcVars, shutdown, chanClosed, inputGroup, ci, cancel, shutdownPc,
                   waitPc, waitCtxDone, waitSignalled, waitLen,
                   waitCtxFirst>>

\* A discard that forgets inputGroup.Done().
ProcessInputDiscardNoDone ==
    /\ consumerPc = "discard"
    /\ inputs' = [inputs EXCEPT ![ci] = Gone("discarded")]
    /\ ci' = 0
    /\ consumerPc' = "recv"
    /\ UNCHANGED <<fdVars, rcVars, currInput, shutdown, chanClosed, inputGroup, cancel,
                   shutdownPc, waitPc, waitCtxDone, waitSignalled, waitLen,
                   waitCtxFirst>>

\* `if !valid { cr.inputGroup.Done(); continue }`
ProcessInputDiscard ==
    /\ consumerPc = "discard"
    /\ inputGroup' = Done(inputGroup)
    /\ inputs' = [inputs EXCEPT ![ci] = Gone("discarded")]
    /\ ci' = 0
    /\ consumerPc' = "recv"
    /\ UNCHANGED <<fdVars, rcVars, currInput, shutdown, chanClosed, cancel, shutdownPc,
                   waitPc, waitCtxDone, waitSignalled, waitLen,
                   waitCtxFirst>>

\* `ctx, cancel = context.WithCancel(ctx); go cr.doResolve(ctx, ci)`
ProcessInputStart ==
    /\ consumerPc = "start"
    /\ inputs' = [inputs EXCEPT ![ci].st = "running", ![ci].tpc = "start"]
    /\ cancel' = ci
    /\ ci' = 0
    /\ consumerPc' = "recv"
    /\ UNCHANGED <<fdVars, rcVars, currInput, shutdown, chanClosed, inputGroup, shutdownPc,
                   waitPc, waitCtxDone, waitSignalled, waitLen,
                   waitCtxFirst>>

\* A consumer without the deferred cancel.
ProcessInputExitNoCancel ==
    /\ consumerPc = "recv"
    /\ chanClosed
    /\ consumerPc' = "exited"
    /\ UNCHANGED <<fdVars, rcVars, currInput, shutdown, chanClosed, inputGroup, inputs, ci,
                   cancel, shutdownPc, waitPc, waitCtxDone, waitSignalled,
                   waitLen, waitCtxFirst>>

\* The range loop ends on the closed channel; the deferred function cancels.
ProcessInputExit ==
    /\ consumerPc = "recv"
    /\ chanClosed
    /\ inputs' = CancelTask(inputs, cancel)
    /\ consumerPc' = "exited"
    /\ UNCHANGED <<fdVars, rcVars, currInput, shutdown, chanClosed, inputGroup, ci, cancel,
                   shutdownPc, waitPc, waitCtxDone, waitSignalled,
                   waitLen, waitCtxFirst>>

(***************************************************************************)
(* doResolve                                                               *)
(***************************************************************************)
\* doResolve returns: the deferred inputGroup.Done().
Finish(i) ==
    /\ inputs' = [inputs EXCEPT ![i] = Gone("finished")]
    /\ inputGroup' = Done(inputGroup)

\* "Canceled before we even got started?", then getMDs, which returns an
\* error, an empty list on one side ("Skipping merge process"), or both lists.
DoResolveGetMDs(i) ==
    /\ inputs[i].st = "running" /\ inputs[i].tpc = "start"
    /\ IF inputs[i].canceled
       THEN Finish(i)
       ELSE \E r \in {"err", "empty", "ok"} :
              IF r = "ok"
              THEN /\ inputs' = [inputs EXCEPT ![i].tpc = "update"]
                   /\ UNCHANGED inputGroup
              ELSE Finish(i)
    /\ UNCHANGED <<fdVars, rcVars, currInput, shutdown, chanClosed, consumerPc, ci, cancel,
                   shutdownPc, waitPc, waitCtxDone, waitSignalled,
                   waitLen, waitCtxFirst>>

\* An updateCurrInput without the checkDone under inputLock.
UpdateCurrInputUnchecked(i) ==
    /\ inputs[i].st = "running" /\ inputs[i].tpc = "update"
    /\ \E revU \in Revs, revM \in Revs :
        LET r == BoundInput(currInput, revU, revM) IN
        /\ currInput' = r.cur
        /\ IF r.err
           THEN Finish(i)
           ELSE /\ inputs' = [inputs EXCEPT ![i].tpc = "check2"]
                /\ UNCHANGED inputGroup
    /\ UNCHANGED <<fdVars, rcVars, shutdown, chanClosed, consumerPc, ci, cancel, shutdownPc,
                   waitPc, waitCtxDone, waitSignalled, waitLen,
                   waitCtxFirst>>

\* updateCurrInput under inputLock, with the terminal revisions revU and revM
\* of the lists getMDs returned.
UpdateCurrInput(i) ==
    /\ inputs[i].st = "running" /\ inputs[i].tpc = "update"
    /\ \E revU \in Revs, revM \in Revs :
        IF inputs[i].canceled
        THEN /\ Finish(i)
             /\ UNCHANGED currInput
        ELSE LET r == BoundInput(currInput, revU, revM) IN
             /\ currInput' = r.cur
             /\ IF r.err
                THEN Finish(i)
                ELSE /\ inputs' = [inputs EXCEPT ![i].tpc = "check2"]
                     /\ UNCHANGED inputGroup
    /\ UNCHANGED <<fdVars, rcVars, shutdown, chanClosed, consumerPc, ci, cancel, shutdownPc,
                   waitPc, waitCtxDone, waitSignalled, waitLen,
                   waitCtxFirst>>

\* The rest of doResolve: the checkDone calls before makeChains and after
\* resolveMergedPaths, and the pipeline steps between and after them, which
\* touch nothing the resolver shares; each may return early, with an error or
\* on a canceled ctx, and the deferred Done runs in every case.
DoResolveFinish(i) ==
    /\ inputs[i].st = "running" /\ inputs[i].tpc = "check2"
    /\ Finish(i)
    /\ UNCHANGED <<fdVars, rcVars, currInput, shutdown, chanClosed, consumerPc, ci, cancel,
                   shutdownPc, waitPc, waitCtxDone, waitSignalled,
                   waitLen, waitCtxFirst>>

doResolve(i) ==
    \/ DoResolveGetMDs(i)
    \/ UpdateCurrInput(i)
    \/ DoResolveFinish(i)

(***************************************************************************)
(* Shutdown                                                                *)
(***************************************************************************)
\* Shutdown asks for shutdownLock.Lock().
ShutdownCall ==
    /\ shutdownPc = "idle"
    /\ shutdownPc' = "waiting"
    /\ UNCHANGED <<fdVars, rcVars, currInput, shutdown, chanClosed, inputGroup, inputs,
                   consumerPc, ci, cancel, waitPc, waitCtxDone,
                   waitSignalled, waitLen, waitCtxFirst>>

\* Whether some Resolve call holds shutdownLock for reading (it is blocked in
\* its send).
ReadLocked == \E i \in Ids : inputs[i].st = "sending"

\* A Shutdown that closes the channel without taking shutdownLock.
ShutdownCloseNoLock ==
    /\ shutdownPc = "waiting"
    /\ shutdown' = TRUE
    /\ chanClosed' = TRUE
    /\ shutdownPc' = "done"
    /\ UNCHANGED <<fdVars, rcVars, currInput, inputGroup, inputs, consumerPc, ci, cancel,
                   waitPc, waitCtxDone, waitSignalled, waitLen, waitCtxFirst>>

\* The lock is granted once no Resolve holds it for reading.
ShutdownClose ==
    /\ shutdownPc = "waiting"
    /\ ~ReadLocked
    /\ shutdown' = TRUE
    /\ chanClosed' = TRUE
    /\ shutdownPc' = "done"
    /\ UNCHANGED <<fdVars, rcVars, currInput, inputGroup, inputs, consumerPc, ci, cancel,
                   waitPc, waitCtxDone, waitSignalled, waitLen,
                   waitCtxFirst>>

(***************************************************************************)
(* Wait                                                                    *)
(***************************************************************************)
\* Wait is called: it starts the goroutine and goes to its select.
WaitCall ==
    /\ waitPc = "idle"
    /\ waitPc' = "select"
    /\ waitLen' = Len(inputs)
    /\ UNCHANGED <<fdVars, rcVars, currInput, shutdown, chanClosed, inputGroup, inputs,
                   consumerPc, ci, cancel, shutdownPc, waitCtxDone,
                   waitSignalled, waitCtxFirst>>

\* A goroutine that does not wait for the counter.
WaitGroupWaitNoBlock ==
    /\ waitPc # "idle"
    /\ ~waitSignalled
    /\ waitSignalled' = TRUE
    /\ UNCHANGED <<fdVars, rcVars, currInput, shutdown, chanClosed, inputGroup, inputs,
                   consumerPc, ci, cancel, shutdownPc, waitPc, waitCtxDone,
                   waitLen, waitCtxFirst>>

\* The goroutine: inputGroup.Wait() returns with the counter at zero, and
\* `c <- struct{}{}` fills the one-element channel.
WaitGroupWait ==
    /\ waitPc # "idle"
    /\ ~waitSignalled
    /\ inputGroup = 0
    /\ waitSignalled' = TRUE
    /\ UNCHANGED <<fdVars, rcVars, currInput, shutdown, chanClosed, inputGroup, inputs,
                   consumerPc, ci, cancel, shutdownPc, waitPc,
                   waitCtxDone, waitLen, waitCtxFirst>>

\* The caller's ctx is canceled.
WaitCtxCancel ==
    /\ waitPc = "select"
    /\ ~waitCtxDone
    /\ waitCtxDone' = TRUE
    /\ waitCtxFirst' = ~waitSignalled
    /\ UNCHANGED <<fdVars, rcVars, currInput, shutdown, chanClosed, inputGroup, inputs,
                   consumerPc, ci, cancel, shutdownPc, waitPc,
                   waitSignalled, waitLen>>

\* `case <-c: return nil`
WaitReturnNil ==
    /\ waitPc = "select"
    /\ waitSignalled
    /\ waitPc' = "retNil"
    /\ UNCHANGED <<fdVars, rcVars, currInput, shutdown, chanClosed, inputGroup, inputs,
                   consumerPc, ci, cancel, shutdownPc, waitCtxDone,
                   waitSignalled, waitLen, waitCtxFirst>>

\* `case <-ctx.Done(): return ctx.Err()`
WaitReturnErr ==
    /\ waitPc = "select"
    /\ waitCtxDone
    /\ waitPc' = "retErr"
    /\ UNCHANGED <<fdVars, rcVars, currInput, shutdown, chanClosed, inputGroup, inputs,
                   consumerPc, ci, cancel, shutdownPc, waitCtxDone,
                   waitSignalled, waitLen, waitCtxFirst>>

(***************************************************************************)
(* The resolver's specifications.  The Go scheduler runs every goroutine   *)
(* that can take a step, and every collaborator call returns: processInput,*)
(* each doResolve and a Shutdown that can take the lock are weakly fair.   *)
(* SpecCR leaves Wait out and SpecWait leaves Shutdown out (neither reads  *)
(* nor writes the other's state).                                          *)
(***************************************************************************)
processInput ==
    \/ ProcessInputRecv
    \/ ProcessInputFilter
    \/ ProcessInputDiscard
    \/ ProcessInputStart
    \/ ProcessInputExit

NextCR ==
    \/ ResolveAdd
    \/ ResolveRefused
    \/ ProcessInputRecv
    \/ ProcessInputFilter
    \/ ProcessInputDiscard
    \/ ProcessInputStart
    \/ ProcessInputExit
    \/ \E i \in Ids : DoResolveGetMDs(i)
    \/ \E i \in Ids : UpdateCurrInput(i)
    \/ \E i \in Ids : DoResolveFinish(i)
    \/ ShutdownCall
    \/ ShutdownClose

SpecCR ==
    /\ InitCR
    /\ [][NextCR]_vars
    /\ WF_vars(processInput)
    /\ WF_vars(ShutdownClose)
    /\ \A i \in 1..MaxInputs : WF_vars(i \in Ids /\ doResolve(i))

NextWait ==
    \/ ResolveAdd
    \/ ProcessInputRecv
    \/ ProcessInputFilter
    \/ ProcessInputDiscard
    \/ ProcessInputStart
    \/ \E i \in Ids : DoResolveGetMDs(i)
    \/ \E i \in Ids : UpdateCurrInput(i)
    \/ \E i \in Ids : DoResolveFinish(i)
    \/ WaitCall
    \/ WaitGroupWait
    \/ WaitCtxCancel
    \/ WaitReturnNil
    \/ WaitReturnErr

SpecWait == InitCR /\ [][NextWait]_vars

\* Resolve callers, Shutdown, Wait, the consumer and the tasks together;
\* Wait's goroutine and its select are scheduled as well.
SpecDrain ==
    /\ InitCR
    /\ [][NextCR \/ WaitCall \/ WaitGroupWait \/ WaitCtxCancel
                 \/ WaitReturnNil \/ WaitReturnErr]_vars
    /\ WF_vars(processInput)
    /\ WF_vars(ShutdownClose)
    /\ \A i \in 1..MaxInputs : WF_vars(i \in Ids /\ doResolve(i))
    /\ WF_vars(WaitGroupWait)
    /\ WF_vars(WaitReturnNil \/ WaitReturnErr)

(***************************************************************************)
(* Vocabulary of the claims.                                               *)
(***************************************************************************)
Running(k) == inputs[k].st = "running"
IsGone(k) == inputs[k].st \in {"discarded", "finished", "refused"}
\* processInput leaves the `valid` closure, starts a task, drops an input.
FilterStep == consumerPc = "filter" /\ consumerPc' # "filter"
StartStep == consumerPc = "start" /\ consumerPc' = "recv"
DiscardStep == consumerPc = "discard" /\ consumerPc' = "recv"

(***************************************************************************)
(* C1  Resolver preemption.                                                *)
(***************************************************************************)
\* C1 as stated: when the consumer processes an input (u2, m2) while the task
\* of an accepted input (u1, m1) has not returned, and u2 > u1 or m2 > m1,
\* that task's context is canceled when the consumer is done with the filter.
C1_Original ==
    [][FilterStep =>
        \A k \in Ids :
            (/\ Running(k)
             /\ \/ inputs[ci].unmerged > inputs[k].unmerged
                \/ inputs[ci].merged > inputs[k].merged)
            => inputs'[k].canceled]_vars

\* C1 amended: when the consumer processes an input (u2, m2) that is greater
\* in one revision than currInput (which updateCurrInput may have raised
\* above the running task's own input), the context of every task that has
\* not returned is canceled when the filter is left, hence before the second
\* task is started; a canceled context stays canceled while the task runs.
C1_Preemption ==
    [][/\ (FilterStep /\ (\/ inputs[ci].unmerged > currInput.unmerged
                          \/ inputs[ci].merged > currInput.merged))
            => \A k \in Ids : Running(k) => inputs'[k].canceled
       /\ StartStep
            => \A k \in Ids : (k # ci /\ Running(k)) => inputs[k].canceled
       /\ \A k \in Ids : (Running(k) /\ inputs[k].canceled /\ inputs'[k].st = "running")
            => inputs'[k].canceled]_vars

\* A preempted task runs beside the task that preempted it.
C1_Witness ==
    \E k \in Ids, j \in Ids :
        /\ k # j
        /\ Running(k) /\ inputs[k].canceled
        /\ Running(j) /\ ~inputs[j].canceled

(***************************************************************************)
(* C2  Input filter.                                                       *)
(***************************************************************************)
\* C2: the filter, reading currInput under inputLock, sends the input (u, m)
\* to the start of a task iff u > currInput.unmerged or m > currInput.merged;
\* otherwise the input is discarded: no task is started, no context is
\* canceled and currInput is unchanged.  Tasks are started only for the
\* input the filter accepted.
C2_InputFilter ==
    [][/\ FilterStep =>
            IF \/ inputs[ci].unmerged > currInput.unmerged
               \/ inputs[ci].merged > currInput.merged
            THEN consumerPc' = "start" /\ ci' = ci
            ELSE /\ consumerPc' = "discard" /\ ci' = ci
                 /\ inputs' = inputs
                 /\ currInput' = currInput
       /\ DiscardStep =>
            /\ inputs'[ci].st = "discarded"
            /\ currInput' = currInput
            /\ \A k \in Ids : k # ci => inputs'[k] = inputs[k]
       /\ StartStep => inputs'[ci].st = "running"
       /\ \A k \in Ids : (~Running(k) /\ inputs'[k].st = "running")
            => (consumerPc = "start" /\ k = ci)]_vars

\* One input was discarded while the task of another runs.
C2_Witness ==
    \E k \in Ids, j \in Ids :
        inputs[k].st = "discarded" /\ Running(j) /\ ~inputs[j].canceled

(***************************************************************************)
(* C3  One resolution at a time.                                           *)
(***************************************************************************)
\* C3 as stated: at most one doResolve task has started and not yet returned.
C3_Original == Cardinality({k \in Ids : Running(k)}) <= 1

\* C3 amended: at most one doResolve task that has started and not yet
\* returned has a context that is not canceled.
C3_OneLiveTask ==
    Cardinality({k \in Ids : Running(k) /\ ~inputs[k].canceled}) <= 1

\* Two tasks have started and not returned.
C3_Witness == Cardinality({k \in Ids : Running(k)}) >= 2

(***************************************************************************)
(* C4  Wait.                                                               *)
(***************************************************************************)
\* C4 as stated: Wait returns nil only when every input added before it was
\* called is discarded or finished, and when ctx is canceled first (before
\* the counter was seen at zero) Wait returns ctx's error.
C4_Original ==
    /\ waitPc = "retNil" => \A k \in 1..waitLen : IsGone(k)
    /\ (waitPc \in {"retNil", "retErr"} /\ waitCtxFirst) => waitPc = "retErr"

\* C4 amended: Wait returns nil only after its goroutine saw the counter at
\* zero, in a state where every input added before Wait was called is
\* discarded or finished; it returns an error only when ctx is canceled; and
\* while ctx is canceled and the goroutine has not signalled, the error is the
\* only result the select can give.
C4_Wait ==
    /\ waitPc = "retNil" =>
         /\ waitSignalled
         /\ \A k \in 1..waitLen : IsGone(k)
    /\ waitPc = "retErr" => waitCtxDone
    /\ (waitPc = "select" /\ waitCtxDone /\ ~waitSignalled) =>
         (ENABLED WaitReturnErr /\ ~ENABLED WaitReturnNil)

\* Wait returned nil after inputs added before it were resolved or discarded.
C4_Witness ==
    /\ waitPc = "retNil"
    /\ waitLen >= 2
    /\ \E k \in 1..waitLen : inputs[k].st = "finished"

(***************************************************************************)
(* C5  Outstanding-submission counter.                                     *)
(***************************************************************************)
\* C5: the counter is never negative and equals the number of inputs added by
\* Resolve that are neither discarded nor finished.
C5_Counter ==
    /\ inputGroup >= 0
    /\ inputGroup = Cardinality({k \in Ids : ~IsGone(k)})

\* One input was discarded, another's task returned, and the counter is 0.
C5_Witness ==
    /\ inputGroup = 0
    /\ \E k \in Ids, j \in Ids :
        inputs[k].st = "discarded" /\ inputs[j].st = "finished"

(***************************************************************************)
(* C6  Resolve is non-blocking.                                            *)
(***************************************************************************)
\* C6 as stated: a Resolve call can always complete without another thread
\* taking a step: whenever one is in its send, the consumer is at its receive.
C6_Original ==
    \A k \in Ids : inputs[k].st = "sending" => consumerPc = "recv"

\* C6 amended: a Resolve call in its send waits only for the consumer loop to
\* come back to its receive: the channel is open, the resolver is not shut
\* down, the consumer has not exited, and the consumer is at its receive or
\* can take its next step, whatever the tasks do.
C6_ResolveWaitsForConsumerOnly ==
    \A k \in Ids : inputs[k].st = "sending" =>
        /\ ~chanClosed
        /\ ~shutdown
        /\ consumerPc # "exited"
        /\ consumerPc = "recv" \/ ENABLED processInput

\* A Resolve call is blocked in its send while the consumer starts a task.
C6_Witness ==
    \E k \in Ids : inputs[k].st = "sending" /\ consumerPc = "start"

(***************************************************************************)
(* C7  Shutdown.                                                           *)
(***************************************************************************)
\* C7 as stated (its second part): after Shutdown returns no new resolution
\* task is ever started.
C7_Original ==
    [][shutdown =>
        \A k \in Ids : inputs'[k].st = "running" => Running(k)]_vars

\* C7 amended: after Shutdown returns, every later Resolve adds nothing to the
\* counter and enqueues nothing, no Resolve is left in its send, the consumer
\* eventually exits, and once it has exited every task still running has a
\* canceled context and no task is started.
C7_Shutdown ==
    /\ [](consumerPc = "exited" =>
            \A k \in Ids : Running(k) => inputs[k].canceled)
    /\ [](shutdown => \A k \in Ids : inputs[k].st # "sending")
    /\ (shutdown ~> consumerPc = "exited")
    /\ [][/\ shutdown =>
              /\ inputGroup' <= inputGroup
              /\ Len(inputs') > Len(inputs) =>
                    inputs'[Len(inputs')].st = "refused"
          /\ consumerPc = "exited" =>
              \A k \in Ids : inputs'[k].st = "running" => Running(k)]_vars

\* After Shutdown the consumer has exited, a task is still running with a
\* canceled context, and a Resolve call was refused.
C7_Witness ==
    /\ shutdown
    /\ consumerPc = "exited"
    /\ \E k \in Ids, j \in Ids :
        Running(k) /\ inputs[k].canceled /\ inputs[j].st = "refused"

(***************************************************************************)
(* C8  Resolver progress.                                                  *)
(***************************************************************************)
\* C8: the task of every accepted input (u, m) eventually returns, and when
\* it returns with a context that no newer input and no shutdown canceled,
\* currInput.unmerged >= u and currInput.merged >= m; the same holds as long
\* as it runs uncanceled.
C8_Progress ==
    /\ \A i \in 1..MaxInputs :
         (i \in Ids /\ inputs[i].st = "accepted")
            ~> (i \in Ids /\ inputs[i].st = "finished")
    /\ [](\A k \in Ids : (Running(k) /\ ~inputs[k].canceled) =>
            /\ currInput.unmerged >= inputs[k].unmerged
            /\ currInput.merged >= inputs[k].merged)
    /\ [][\A k \in Ids :
            (Running(k) /\ ~inputs[k].canceled /\ inputs'[k].st = "finished")
            => /\ currInput'.unmerged >= inputs[k].unmerged
               /\ currInput'.merged >= inputs[k].merged]_vars

\* The task started last has returned, nothing having canceled it, after
\* updateCurrInput raised currInput to the highest revisions.
C8_Witness ==
    /\ cancel # 0
    /\ inputs[cancel].st = "finished"
    /\ consumerPc = "recv"
    /\ ~chanClosed
    /\ currInput = [unmerged |-> MaxRev, merged |-> MaxRev]

(***************************************************************************)
(* C9  currInput.                                                          *)
(***************************************************************************)
\* C9 as stated: neither currInput.unmerged nor currInput.merged ever
\* decreases.
C9_Original ==
    [][/\ currInput'.unmerged >= currInput.unmerged
       /\ currInput'.merged >= currInput.merged]_vars

\* C9 amended: an accepted input (u, m) replaces currInput as a whole: it
\* raises at least one of the two revisions and may lower the other; every
\* other step, updateCurrInput included, lowers neither; and right after an
\* input (u, m) has been processed currInput.unmerged >= u and
\* currInput.merged >= m.
C9_CurrInput ==
    [][/\ (consumerPc = "filter" /\ consumerPc' = "start") =>
            /\ currInput' = [unmerged |-> inputs[ci].unmerged,
                             merged |-> inputs[ci].merged]
            /\ \/ currInput'.unmerged > currInput.unmerged
               \/ currInput'.merged > currInput.merged
       /\ FilterStep =>
            /\ currInput'.unmerged >= inputs[ci].unmerged
            /\ currInput'.merged >= inputs[ci].merged
       /\ ~FilterStep =>
            /\ currInput'.unmerged >= currInput.unmerged
            /\ currInput'.merged >= currInput.merged]_vars

\* An accepted input lowered a revision: currInput is below the input of the
\* task it preempted.
C9_Witness ==
    \E k \in Ids :
        /\ Running(k) /\ inputs[k].canceled
        /\ consumerPc = "start"
        /\ currInput.merged < inputs[k].merged

(***************************************************************************)
(* The indirect-file data engine.                                          *)
(*                                                                         *)
(* Inside one call the blocks are Go objects that several names may share: *)
(* a working state st holds the objects (st.heap, a sequence of FileBlock  *)
(* values), the block each pointer is cached under (st.cache), the         *)
(* pointers that are dirty (st.dirty) and the next temporary ID            *)
(* (st.nextID).  A block variable of the code is an index into st.heap.    *)
(***************************************************************************)
\* The blocks known when a call starts, each one its own object.
RECURSIVE HeapOf(_, _)
HeapOf(blocks, n) ==
    IF n = 0 THEN <<>>
    ELSE Append(HeapOf(blocks, n - 1),
                IF n \in DOMAIN blocks THEN blocks[n] ELSE EmptyBlock)

WorkingState(blocks, dirty, nextID) ==
    [heap |-> HeapOf(blocks, nextID - 1),
     cache |-> [p \in DOMAIN blocks |-> p],
     dirty |-> dirty,
     nextID |-> nextID,
     late |-> {},
     cached |-> {}]

\* What the getter returns after the call: the value of each cached object.
BlocksOf(st) == [p \in DOMAIN st.cache |-> st.heap[st.cache[p]]]

\* fd.cacher(ptr, block): the block is installed as dirty under ptr.
cacher(st, ptr, block) ==
    [st EXCEPT !.cache = [p \in DOMAIN st.cache \cup {ptr} |->
                             IF p = ptr THEN block ELSE st.cache[p]],
               !.dirty = @ \cup {ptr},
               !.cached = @ \cup {ptr}]

\* fd.crypto.MakeTemporaryBlockID(): st.nextID is the new ID.
MakeTemporaryBlockID(st) == [st EXCEPT !.nextID = @ + 1]

\* A new object: its index is Len(st.heap) + 1.
NewObject(st, b) == [st EXCEPT !.heap = Append(@, b)]

\* fd.getter(ctx, kmd, ptr, file, rtype): a dirty block is returned as it is
\* cached, a clean one is copied when it is asked for writing; a pointer
\* nothing is cached under is an error, and so is a fetch that the deadline
\* of ctx ends (the pointers of st.late).
getter(st, ptr, rtype) ==
    IF ptr \notin DOMAIN st.cache
    THEN [st |-> st, block |-> 0, wasDirty |-> FALSE, err |-> "NoSuchBlock"]
    ELSE IF ptr \in st.late
    THEN [st |-> st, block |-> 0, wasDirty |-> FALSE,
          err |-> "context.DeadlineExceeded"]
    ELSE IF rtype = "blockWrite" /\ ptr \notin st.dirty
    THEN [st |-> NewObject(st, st.heap[st.cache[ptr]]),
          block |-> Len(st.heap) + 1, wasDirty |-> FALSE, err |-> "nil"]
    ELSE [st |-> st, block |-> st.cache[ptr],
          wasDirty |-> ptr \in st.dirty, err |-> "nil"]

parentBlockAndChildIndex(pblock, childIndex) ==
    [pblock |-> pblock, childIndex |-> childIndex]

\* pbci.childIPtr()
childIPtr(st, pbci) == st.heap[pbci.pblock].IPtrs[pbci.childIndex]

\* A scan that takes the first pointer with a greater offset, not the one
\* before it.
RECURSIVE NextIndexOnGreater(_, _, _)
NextIndexOnGreater(iptrs, off, i) ==
    IF i > Len(iptrs) THEN Len(iptrs)
    ELSE IF iptrs[i].Off = off THEN i
    ELSE IF iptrs[i].Off > off THEN i
    ELSE NextIndexOnGreater(iptrs, off, i + 1)

(***************************************************************************)
(* getFileBlockAtOffset                                                    *)
(***************************************************************************)
\* The scan of block.IPtrs (indices from 1): the pointer with the offset
\* off, else the one before the first pointer with a greater offset, else
\* the last one.
RECURSIVE NextIndex(_, _, _)
NextIndex(iptrs, off, i) ==
    IF i > Len(iptrs) THEN Len(iptrs)
    ELSE IF iptrs[i].Off = off THEN i
    ELSE IF iptrs[i].Off > off THEN i - 1
    ELSE NextIndex(iptrs, off, i + 1)

\* The loop `for block.IsInd`; r holds the values the function returns.
RECURSIVE SearchLeaf(_, _, _)
SearchLeaf(r, off, rtype) ==
    IF r.err # "nil" \/ ~r.st.heap[r.block].IsInd THEN r
    ELSE
        LET iptrs == r.st.heap[r.block].IPtrs
            nextIndex == NextIndex(iptrs, off, 1)
        IN  IF nextIndex < 1
            THEN [r EXCEPT !.err = "panic"]
            ELSE
                LET nextPtr == iptrs[nextIndex]
                    g == getter(r.st, nextPtr.BlockPointer, rtype)
                IN  SearchLeaf(
                        [st |-> g.st,
                         ptr |-> nextPtr.BlockPointer,
                         parentBlocks |->
                             Append(r.parentBlocks,
                                    parentBlockAndChildIndex(r.block, nextIndex)),
                         block |-> g.block,
                         nextBlockStartOff |->
                             IF nextIndex # Len(iptrs)
                             THEN iptrs[nextIndex + 1].Off
                             ELSE r.nextBlockStartOff,
                         startOff |-> nextPtr.Off,
                         wasDirty |-> g.wasDirty,
                         err |-> g.err],
                        off, rtype)

getFileBlockAtOffset(st, topBlock, off, rtype) ==
    IF ~st.heap[topBlock].IsInd
    THEN LET g == getter(st, RootPtr, rtype)
         IN  [st |-> st, ptr |-> RootPtr, parentBlocks |-> <<>>,
              block |-> topBlock, nextBlockStartOff |-> -1, startOff |-> 0,
              wasDirty |-> g.wasDirty, err |-> g.err]
    ELSE SearchLeaf([st |-> st, ptr |-> RootPtr, parentBlocks |-> <<>>,
                     block |-> topBlock, nextBlockStartOff |-> -1,
                     startOff |-> 0, wasDirty |-> FALSE, err |-> "nil"],
                    off, rtype)

(***************************************************************************)
(* getLeafBlocksForOffsetRange (the children's goroutines all return; the  *)
(* responses are joined in the order of the children)                      *)
(***************************************************************************)
RECURSIVE getLeafBlocksForOffsetRange(_, _, _, _, _)
RECURSIVE LeafChildren(_, _, _, _, _, _, _)

\* The loop over pblock.IPtrs from index i on, with the join of the
\* children's responses; acc holds pathsFromRoot, minNextBlockOffsetChild,
\* nextBlockOffsetThisLevel, the error of eg.Wait() and whether the loop
\* over respChans has met a channel with no response in it (a child that
\* returned an error sends none).
LeafChildren(st, pblock, i, startOff, endOff, prefixOk, acc) ==
    LET iptrs == st.heap[pblock].IPtrs
        joined(g, self) ==
            LET child(r) ==
                    IF r.err # "nil"
                    THEN [acc EXCEPT !.err = IF @ = "nil" THEN r.err ELSE @,
                                     !.noResponse = TRUE]
                    ELSE IF acc.noResponse THEN acc
                    ELSE [acc EXCEPT
                             !.pathsFromRoot = @ \o
                                 [k \in 1..Len(r.pathsFromRoot) |->
                                     <<self>> \o r.pathsFromRoot[k]],
                             !.minNextBlockOffsetChild =
                                 IF /\ r.nextBlockOffset # -1
                                    /\ (@ = -1 \/ r.nextBlockOffset < @)
                                 THEN r.nextBlockOffset ELSE @]
            IN  IF g.err # "nil"
                THEN [acc EXCEPT !.err = IF @ = "nil" THEN g.err ELSE @,
                                 !.noResponse = TRUE]
                ELSE child(getLeafBlocksForOffsetRange(
                               st, g.block, startOff, endOff, prefixOk))
    IN  IF i > Len(iptrs) THEN acc
        ELSE
            LET inRangeLeft ==
                    IF i < Len(iptrs) THEN startOff < iptrs[i + 1].Off ELSE TRUE
                inRangeRight == endOff = -1 \/ endOff > iptrs[i].Off
            IN  IF ~inRangeLeft
                THEN LeafChildren(st, pblock, i + 1, startOff, endOff, prefixOk,
                                  acc)
                ELSE IF ~inRangeRight
                THEN [acc EXCEPT !.nextBlockOffsetThisLevel = iptrs[i].Off]
                ELSE LeafChildren(st, pblock, i + 1, startOff, endOff, prefixOk,
                         joined(getter(st, iptrs[i].BlockPointer,
                                       "blockReadParallel"),
                                parentBlockAndChildIndex(pblock, i)))

\* From `err = eg.Wait()` on: a deadline that ended a child's fetch is no
\* error when prefixOk.
getLeafBlocksForOffsetRange(st, pblock, startOff, endOff, prefixOk) ==
    LET joined(acc) ==
            IF /\ acc.err # "nil"
               /\ ~(prefixOk /\ acc.err = "context.DeadlineExceeded")
            THEN [pathsFromRoot |-> <<>>, nextBlockOffset |-> 0, err |-> acc.err]
            ELSE [pathsFromRoot |-> acc.pathsFromRoot,
                  nextBlockOffset |->
                      IF acc.nextBlockOffsetThisLevel = -1
                      THEN acc.minNextBlockOffsetChild
                      ELSE IF /\ acc.minNextBlockOffsetChild # -1
                              /\ acc.minNextBlockOffsetChild
                                    < acc.nextBlockOffsetThisLevel
                      THEN acc.minNextBlockOffsetChild
                      ELSE acc.nextBlockOffsetThisLevel,
                  err |-> "nil"]
    IN  IF ~st.heap[pblock].IsInd
        THEN [pathsFromRoot |-> << <<>> >>, nextBlockOffset |-> -1, err |-> "nil"]
        ELSE joined(LeafChildren(st, pblock, 1, startOff, endOff, prefixOk,
                        [pathsFromRoot |-> <<>>,
                         minNextBlockOffsetChild |-> -1,
                         nextBlockOffsetThisLevel |-> -1,
                         noResponse |-> FALSE,
                         err |-> "nil"]))

(***************************************************************************)
(* getByteSlicesInOffsetRange and read                                     *)
(***************************************************************************)
\* make([]byte, n)
Zeros(n) == [k \in 1..n |-> 0]

\* A slice that always starts at the first byte.
SliceFromStart(s, from, to) == SubSeq(s, 1, to - from)

\* s[from:to] of Go, offsets from 0.
Slice(s, from, to) == SubSeq(s, from + 1, to)

\* The loop over iptrs from index i on, and the fill after it; r holds
\* nRead, the bytes gathered so far (the slices concatenated) and whether the
\* function has returned.
RECURSIVE ByteSlices(_, _, _, _, _, _, _)
ByteSlices(st, iptrs, i, startOff, n, nextBlockOff, r) ==
    IF r.done THEN r
    ELSE IF i > Len(iptrs)
    THEN
        IF r.nRead < n /\ nextBlockOff > 0
        THEN LET toRead == n - r.nRead
                 nextByte == r.nRead + startOff
                 fill == IF nextBlockOff - nextByte > toRead
                         THEN toRead ELSE nextBlockOff - nextByte
             IN  IF fill <= 0
                 THEN [r EXCEPT !.done = TRUE, !.bytes = <<>>, !.err = "BadSplitError"]
                 ELSE [r EXCEPT !.done = TRUE, !.bytes = @ \o Zeros(fill)]
        ELSE [r EXCEPT !.done = TRUE]
    ELSE
        LET block == st.heap[st.cache[iptrs[i].BlockPointer]]
            blockLen == Len(block.Contents)
            nextByte == r.nRead + startOff
            toRead == n - r.nRead
            blockOff == iptrs[i].Off
            lastByteInBlock == blockOff + blockLen
        IN  IF nextByte >= lastByteInBlock
            THEN
                IF nextBlockOff > 0
                THEN LET fill == IF nextBlockOff - nextByte > toRead
                                 THEN toRead ELSE nextBlockOff - nextByte
                     IN  IF fill <= 0
                         THEN [r EXCEPT !.done = TRUE, !.bytes = <<>>,
                                        !.err = "BadSplitError"]
                         ELSE ByteSlices(st, iptrs, i + 1, startOff, n, nextBlockOff,
                                  [r EXCEPT !.bytes = @ \o Zeros(fill),
                                            !.nRead = @ + fill])
                ELSE [r EXCEPT !.done = TRUE]
            ELSE
                LET toRead1 == IF toRead > lastByteInBlock - nextByte
                               THEN lastByteInBlock - nextByte ELSE toRead
                    fill == IF nextByte < blockOff THEN blockOff - nextByte ELSE 0
                    toRead2 == toRead1 - fill
                    firstByteToRead == nextByte + fill - blockOff
                IN  IF toRead2 < 0 \/ toRead2 + firstByteToRead > blockLen
                    THEN [r EXCEPT !.done = TRUE, !.bytes = <<>>, !.err = "panic"]
                    ELSE ByteSlices(st, iptrs, i + 1, startOff, n, nextBlockOff,
                             [r EXCEPT
                                 !.bytes = @ \o Zeros(fill) \o
                                     Slice(block.Contents, firstByteToRead,
                                           toRead2 + firstByteToRead),
                                 !.nRead = @ + fill + toRead2])

\* The loop over pfr, the paths getLeafBlocksForOffsetRange returned as l:
\* the pointer to the leaf of each path.
PathIPtrs(st, l) ==
    LET pfr == l.pathsFromRoot
        iptrs == [k \in 1..Len(pfr) |-> childIPtr(st, pfr[k][Len(pfr[k])])]
    IN  IF l.err # "nil" THEN [iptrs |-> <<>>, err |-> l.err]
        ELSE IF \E k \in 1..Len(pfr) : Len(pfr[k]) = 0
        THEN [iptrs |-> <<>>, err |-> "Unexpected empty path"]
        ELSE [iptrs |-> iptrs,
              endBlockOff |->
                  IF Len(iptrs) = 0 THEN -1
                  ELSE iptrs[Len(iptrs)].Off +
                       Len(st.heap[st.cache[iptrs[Len(iptrs)].BlockPointer]].Contents),
              nextBlockOff |-> l.nextBlockOffset,
              err |-> "nil"]

\* The pointers to the leaves of the range and the offset after the last one.
LeafIPtrs(st, topBlock, startOff, endOff, prefixOk) ==
    IF st.heap[topBlock].IsInd
    THEN PathIPtrs(st, getLeafBlocksForOffsetRange(st, topBlock, startOff, endOff,
                                                   prefixOk))
    ELSE [iptrs |-> <<IndirectFilePtr(RootPtr, 0)>>,
          endBlockOff |-> Len(st.heap[topBlock].Contents),
          nextBlockOff |-> -1,
          err |-> "nil"]

\* The function from `if len(iptrs) == 0` on; l holds iptrs, endBlockOff and
\* nextBlockOff.
LeafByteSlices(st, l, startOff, endOff) ==
    IF l.err # "nil" THEN [bytes |-> <<>>, err |-> l.err]
    ELSE IF Len(l.iptrs) = 0 THEN [bytes |-> <<>>, err |-> "nil"]
    ELSE
        LET n == IF endOff = -1 THEN l.endBlockOff - startOff
                 ELSE endOff - startOff
            r == ByteSlices(st, l.iptrs, 1, startOff, n, l.nextBlockOff,
                     [nRead |-> 0, bytes |-> <<>>, done |-> FALSE,
                      err |-> "nil"])
        IN  [bytes |-> r.bytes, err |-> r.err]

getByteSlicesInOffsetRange(st, startOff, endOff, prefixOk) ==
    IF startOff < 0 \/ endOff < -1
    THEN [bytes |-> <<>>, err |-> "Bad offset range"]
    ELSE IF endOff # -1 /\ endOff <= startOff
    THEN [bytes |-> <<>>, err |-> "nil"]
    ELSE
        LET g == getter(st, RootPtr, "blockRead")
        IN  IF g.err # "nil" THEN [bytes |-> <<>>, err |-> g.err]
            ELSE LeafByteSlices(st, LeafIPtrs(st, g.block, startOff, endOff,
                                              prefixOk),
                                startOff, endOff)

\* The loop `for _, b := range bytes` of read over the slices b, into a dest
\* of destLen bytes.
CopySlices(b, destLen) ==
    IF b.err # "nil" THEN [n |-> 0, dest |-> Zeros(destLen), err |-> b.err]
    ELSE IF Len(b.bytes) > destLen
    THEN [n |-> 0, dest |-> Zeros(destLen), err |-> "panic"]
    ELSE [n |-> Len(b.bytes),
          dest |-> b.bytes \o Zeros(destLen - Len(b.bytes)),
          err |-> "nil"]

\* read(ctx, dest, startOff) with len(dest) = destLen: the number of bytes
\* copied, dest afterwards, and the error.
read(st, destLen, startOff) ==
    IF destLen = 0 THEN [n |-> 0, dest |-> <<>>, err |-> "nil"]
    ELSE CopySlices(getByteSlicesInOffsetRange(st, startOff, startOff + destLen,
                                               TRUE),
                    destLen)

(***************************************************************************)
(* The block splitter: a splitter with leaf blocks of at most fdMaxSize    *)
(* bytes and indirect blocks of at most fdMaxPtrs pointers.                *)
(***************************************************************************)
\* copy(contents[off:off+len(data)], data)
Overwrite(contents, off, data) ==
    [k \in 1..Len(contents) |->
        IF k > off /\ k <= off + Len(data) THEN data[k - off] ELSE contents[k]]

\* bsplit.CopyUntilSplit(block, lastBlock, data, off): the block is extended
\* with zeros up to off+len(data) or to its capacity, and the data that fits
\* is copied at off; the new contents and the number of bytes copied.
CopyUntilSplit(contents, lastBlock, data, off) ==
    LET n == Len(data)
        currLen == Len(contents)
        over == currLen < off + n /\ off + n > fdMaxSize
        moreNeeded == IF currLen >= off + n THEN 0
                      ELSE IF over THEN fdMaxSize - currLen
                      ELSE off + n - currLen
        toCopy == IF over THEN fdMaxSize - off ELSE n
        filled == contents \o Zeros(moreNeeded)
    IN  IF over /\ moreNeeded < 0 THEN [Contents |-> contents, n |-> 0]
        ELSE IF off > Len(filled) THEN [Contents |-> filled, n |-> 0]
        ELSE [Contents |-> Overwrite(filled, off, SubSeq(data, 1, toCopy)),
              n |-> toCopy]

(***************************************************************************)
(* createIndirectBlock and newRightBlock                                   *)
(***************************************************************************)
createIndirectBlock(st) ==
    LET newID == st.nextID
        st1 == NewObject(MakeTemporaryBlockID(st),
                   [IsInd |-> TRUE,
                    IPtrs |-> <<IndirectFilePtr(newID, 0)>>,
                    Contents |-> <<>>])
        fblock == Len(st1.heap)
    IN  [st |-> cacher([st1 EXCEPT !.dirty = @ \ {RootPtr}], RootPtr, fblock),
         block |-> fblock]

\* The loop without `rblock.IsInd = true`: the new block of every level is
\* made as a leaf.
RECURSIVE NewRightBlocksAllLeaves(_, _, _, _, _)
NewRightBlocksAllLeaves(r, parentBlocks, i, pblock, off) ==
    IF i > Len(parentBlocks) THEN r
    ELSE
        LET newPtr == r.st.nextID
            st1 == [MakeTemporaryBlockID(r.st) EXCEPT
                       !.heap[pblock].IPtrs = Append(@, IndirectFilePtr(newPtr, off))]
            st2 == NewObject(st1, EmptyBlock)
            rblock == Len(st2.heap)
        IN  NewRightBlocksAllLeaves(
                [st |-> cacher(st2, newPtr, rblock),
                 rightParentBlocks |->
                     [r.rightParentBlocks EXCEPT ![i] =
                         parentBlockAndChildIndex(pblock, Len(st1.heap[pblock].IPtrs))],
                 newDirtyPtrs |-> r.newDirtyPtrs \cup {newPtr}],
                parentBlocks, i + 1,
                IF i # Len(parentBlocks) THEN rblock ELSE pblock, off)

\* The loop that makes a new right block at every level from i on; r holds
\* the state, rightParentBlocks and newDirtyPtrs.
RECURSIVE NewRightBlocks(_, _, _, _, _)
NewRightBlocks(r, parentBlocks, i, pblock, off) ==
    IF i > Len(parentBlocks) THEN r
    ELSE
        LET newPtr == r.st.nextID
            st1 == [MakeTemporaryBlockID(r.st) EXCEPT
                       !.heap[pblock].IPtrs = Append(@, IndirectFilePtr(newPtr, off))]
            st2 == NewObject(st1, [EmptyBlock EXCEPT !.IsInd = i # Len(parentBlocks)])
            rblock == Len(st2.heap)
        IN  NewRightBlocks(
                [st |-> cacher(st2, newPtr, rblock),
                 rightParentBlocks |->
                     [r.rightParentBlocks EXCEPT ![i] =
                         parentBlockAndChildIndex(pblock, Len(st1.heap[pblock].IPtrs))],
                 newDirtyPtrs |-> r.newDirtyPtrs \cup {newPtr}],
                parentBlocks, i + 1,
                IF i # Len(parentBlocks) THEN rblock ELSE pblock, off)

\* The loop that marks the parents down to the lowest ancestor with room as
\* dirty.
RECURSIVE DirtyAncestors(_, _, _, _, _)
DirtyAncestors(r, parentBlocks, i, lowestAncestorWithRoom, ptr) ==
    IF i > lowestAncestorWithRoom THEN r
    ELSE
        LET pb == parentBlocks[i]
        IN  DirtyAncestors(
                [st |-> cacher(r.st, ptr, pb.pblock),
                 rightParentBlocks |->
                     [r.rightParentBlocks EXCEPT ![i] =
                         parentBlockAndChildIndex(
                             pb.pblock, Len(r.st.heap[pb.pblock].IPtrs))],
                 newDirtyPtrs |-> r.newDirtyPtrs \cup {ptr}],
                parentBlocks, i + 1, lowestAncestorWithRoom,
                childIPtr(r.st, pb).BlockPointer)

\* newRightBlock without the test `len(pblock.IPtrs) < maxPtrs`: the new
\* block goes below the lowest parent, full or not.
newRightBlockCrowded(st, parentBlocks, off) ==
    IF Len(parentBlocks) = 0
    THEN LET c == createIndirectBlock(st)
         IN  DirtyAncestors(
                 NewRightBlocks(
                     [st |-> c.st,
                      rightParentBlocks |-> <<parentBlockAndChildIndex(0, 0)>>,
                      newDirtyPtrs |-> {}],
                     <<parentBlockAndChildIndex(c.block, 1)>>, 1, c.block, off),
                 <<parentBlockAndChildIndex(c.block, 1)>>, 1, 1, RootPtr)
    ELSE DirtyAncestors(
             NewRightBlocks(
                 [st |-> st,
                  rightParentBlocks |->
                      [i \in 1..Len(parentBlocks) |-> parentBlockAndChildIndex(0, 0)],
                  newDirtyPtrs |-> {}],
                 parentBlocks, Len(parentBlocks),
                 parentBlocks[Len(parentBlocks)].pblock, off),
             parentBlocks, 1, Len(parentBlocks), RootPtr)

newRightBlock(st, parentBlocks, off) ==
    LET withRoom == {i \in 1..Len(parentBlocks) :
                        Len(st.heap[parentBlocks[i].pblock].IPtrs) < fdMaxPtrs}
        newLevel == withRoom = {}
        c == createIndirectBlock(st)
        newTopBlock == c.block
        topPtr == c.st.heap[newTopBlock].IPtrs[1].BlockPointer
        st1 == IF ~newLevel THEN st
               ELSE IF Len(parentBlocks) > 0
               THEN cacher(c.st, topPtr, parentBlocks[1].pblock)
               ELSE c.st
        dirty1 == IF newLevel /\ Len(parentBlocks) > 0 THEN {topPtr} ELSE {}
        parents == IF newLevel
                   THEN <<parentBlockAndChildIndex(newTopBlock, 1)>> \o parentBlocks
                   ELSE parentBlocks
        lowestAncestorWithRoom ==
            IF newLevel THEN 1
            ELSE CHOOSE i \in withRoom : \A j \in withRoom : j <= i
        r1 == NewRightBlocks(
                  [st |-> st1,
                   rightParentBlocks |->
                       [i \in 1..Len(parents) |-> parentBlockAndChildIndex(0, 0)],
                   newDirtyPtrs |-> dirty1],
                  parents, lowestAncestorWithRoom,
                  parents[lowestAncestorWithRoom].pblock, off)
    IN  DirtyAncestors(r1, parents, 1, lowestAncestorWithRoom, RootPtr)

(***************************************************************************)
(* markParentsDirty                                                        *)
(***************************************************************************)
RECURSIVE MarkParents(_, _, _, _)
MarkParents(r, parentBlocks, i, parentPtr) ==
    IF i > Len(parentBlocks) THEN r
    ELSE
        LET pb == parentBlocks[i]
            st1 == cacher(r.st, parentPtr, pb.pblock)
            child == childIPtr(st1, pb)
        IN  MarkParents(
                [st |-> IF child.EncodedSize # 0
                        THEN [st1 EXCEPT
                                 !.heap[pb.pblock].IPtrs[pb.childIndex].EncodedSize = 0]
                        ELSE st1,
                 dirtyPtrs |-> r.dirtyPtrs \cup {parentPtr},
                 unrefs |-> IF child.EncodedSize # 0
                            THEN Append(r.unrefs,
                                     [BlockPointer |-> child.BlockPointer,
                                      EncodedSize |-> child.EncodedSize])
                            ELSE r.unrefs],
                parentBlocks, i + 1, child.BlockPointer)

\* A markParentsDirty that caches the parents and returns no dirtied pointer.
markParentsDirtyUnreported(st, parentBlocks) ==
    [MarkParents([st |-> st, dirtyPtrs |-> {}, unrefs |-> <<>>],
                 parentBlocks, 1, RootPtr) EXCEPT !.dirtyPtrs = {}]

markParentsDirty(st, parentBlocks) ==
    MarkParents([st |-> st, dirtyPtrs |-> {}, unrefs |-> <<>>],
                parentBlocks, 1, RootPtr)

(***************************************************************************)
(* shiftBlocksToFillHole                                                   *)
(***************************************************************************)
\* The walk back down the left cousin's right edge, from level on; r holds
\* the state, newParents, leftOff and the error.
RECURSIVE WalkDown(_, _)
WalkDown(r, level) ==
    IF level >= Len(r.newParents) \/ r.err # "nil" THEN r
    ELSE
        LET nextChildPtr == childIPtr(r.st, r.newParents[level])
            g == getter(r.st, nextChildPtr.BlockPointer, "blockWrite")
            nptrs == Len(g.st.heap[g.block].IPtrs)
        IN  IF g.err # "nil" THEN [r EXCEPT !.err = g.err]
            ELSE IF nptrs = 0 THEN [r EXCEPT !.err = "panic"]
            ELSE WalkDown(
                    [r EXCEPT
                        !.st = g.st,
                        !.newParents[level + 1] =
                            parentBlockAndChildIndex(g.block, nptrs),
                        !.leftOff = g.st.heap[g.block].IPtrs[nptrs].Off],
                    level + 1)

\* The update of the parent offsets on the right side, from level up.
RECURSIVE UpdateRightOffsets(_, _, _, _)
UpdateRightOffsets(r, parents, level, newRightOff) ==
    IF level < 1 THEN r
    ELSE
        LET childPtr == childIPtr(r.st, parents[level])
            st1 == cacher(r.st, childPtr.BlockPointer, parents[level + 1].pblock)
            dirty1 == r.newDirtyPtrs \cup {childPtr.BlockPointer}
        IN  IF parents[level + 1].childIndex > 1
            THEN [r EXCEPT !.st = st1, !.newDirtyPtrs = dirty1]
            ELSE UpdateRightOffsets(
                    [r EXCEPT
                        !.st = [st1 EXCEPT
                                   !.heap[parents[level].pblock]
                                       .IPtrs[parents[level].childIndex].Off = newRightOff],
                        !.newDirtyPtrs = dirty1],
                    parents, level - 1, newRightOff)

\* The swap with the last pointer of the left cousin; w is the walk down the
\* cousin's right edge.
RECURSIVE SwapLeft(_, _)
RECURSIVE SwapCousin(_, _, _)
SwapCousin(x, newBlockStartOff, w) ==
    LET immed == x.immedParent.pblock
        newParents == w.newParents
        newImmedParent == newParents[Len(newParents)]
        newImmed == newImmedParent.pblock
        newCurrIndex == Len(w.st.heap[newImmed].IPtrs)
        moved == w.st.heap[immed].IPtrs[x.currIndex]
        back == w.st.heap[newImmed].IPtrs[newCurrIndex]
        st2 == [w.st EXCEPT !.heap[newImmed].IPtrs[newCurrIndex] = moved,
                            !.heap[immed].IPtrs[x.currIndex] = back]
        iptr == childIPtr(st2, newParents[Len(newParents) - 1])
        st3 == IF Len(newParents) > 1
               THEN cacher(st2, iptr.BlockPointer, newImmed)
               ELSE st2
        dirty3 == IF Len(newParents) > 1
                  THEN x.newDirtyPtrs \cup {iptr.BlockPointer}
                  ELSE x.newDirtyPtrs
        u == UpdateRightOffsets(
                 [st |-> st3, newDirtyPtrs |-> dirty3],
                 x.parents, Len(x.parents) - 1,
                 st3.heap[immed].IPtrs[x.currIndex].Off)
    IN  IF w.err # "nil" THEN [x EXCEPT !.err = w.err]
        ELSE IF w.leftOff < newBlockStartOff THEN [x EXCEPT !.st = w.st]
        ELSE SwapLeft(
                [st |-> u.st,
                 parents |-> newParents,
                 immedParent |-> newImmedParent,
                 currIndex |-> newCurrIndex,
                 newDirtyPtrs |-> u.newDirtyPtrs,
                 err |-> "nil"],
                newBlockStartOff)

\* The loop `Swap left as needed`; x holds the state, parents, immedParent,
\* currIndex, newDirtyPtrs and the error.
SwapLeft(x, newBlockStartOff) ==
    LET immed == x.immedParent.pblock
        iptrs == x.st.heap[immed].IPtrs
        levels == {l \in 1..(Len(x.parents) - 1) : x.parents[l].childIndex > 1}
        level == CHOOSE l \in levels : \A k \in levels : k <= l
    IN  IF x.currIndex > 1
        THEN
            IF iptrs[x.currIndex - 1].Off < newBlockStartOff THEN x
            ELSE SwapLeft(
                    [x EXCEPT
                        !.st.heap[immed].IPtrs =
                            [@ EXCEPT ![x.currIndex - 1] = iptrs[x.currIndex],
                                      ![x.currIndex] = iptrs[x.currIndex - 1]],
                        !.currIndex = @ - 1],
                    newBlockStartOff)
        ELSE IF levels = {} THEN x
        ELSE SwapCousin(x, newBlockStartOff,
                 WalkDown(
                     [st |-> x.st,
                      newParents |-> [x.parents EXCEPT ![level].childIndex = @ - 1],
                      leftOff |-> 0,
                      err |-> "nil"],
                     level))

shiftBlocksToFillHole(st, parents) ==
    LET immedParent == parents[Len(parents)]
    IN  SwapLeft([st |-> st,
                  parents |-> parents,
                  immedParent |-> immedParent,
                  currIndex |-> immedParent.childIndex,
                  newDirtyPtrs |-> {},
                  err |-> "nil"],
                 childIPtr(st, immedParent).Off)

(***************************************************************************)
(* write                                                                   *)
(***************************************************************************)
\* `if needFillHole`, after shiftBlocksToFillHole returned f.
HoleFilled(w, made, newBlockOff, f) ==
    IF f.err # "nil" THEN [made EXCEPT !.err = f.err]
    ELSE [made EXCEPT
             !.st = f.st,
             !.dirtyPtrs = @ \cup f.newDirtyPtrs,
             !.oldSizeWithoutHoles =
                 IF w.oldSizeWithoutHoles = w.oldDe.Size
                 THEN newBlockOff ELSE @]

\* `if needExtendFile || needFillHole`, after newRightBlock returned r.
RightBlockMade(w, g, wasIndirect, needFillHole, newBlockOff, r) ==
    LET topBlock == r.rightParentBlocks[1].pblock
        switch == r.st.heap[topBlock].IsInd # wasIndirect
        made == [st |-> r.st, topBlock |-> topBlock,
                 ptr |-> IF switch
                         THEN r.st.heap[topBlock].IPtrs[1].BlockPointer
                         ELSE g.ptr,
                 switchToIndirect |-> switch, dirtyPtrs |-> r.newDirtyPtrs,
                 oldSizeWithoutHoles |-> w.oldSizeWithoutHoles, err |-> "nil"]
    IN  IF ~needFillHole THEN made
        ELSE HoleFilled(w, made, newBlockOff,
                        shiftBlocksToFillHole(r.st, r.rightParentBlocks))

\* `if nCopied < n`: another block is needed.  g is what
\* getFileBlockAtOffset returned, st the state after CopyUntilSplit; the
\* result holds the state, topBlock, ptr, switchToIndirect, the pointers
\* dirtied, oldSizeWithoutHoles and the error.
NeedAnotherBlock(w, g, st, nCopied, off) ==
    LET nextBlockOff == g.nextBlockStartOff
        needExtendFile == nextBlockOff < 0
        needFillHole == off + nCopied < nextBlockOff
        endOff == g.startOff + Len(st.heap[g.block].Contents)
        newBlockOff == IF nCopied = 0 /\ endOff < off THEN off ELSE endOff
        same == [st |-> st, topBlock |-> w.topBlock, ptr |-> g.ptr,
                 switchToIndirect |-> FALSE, dirtyPtrs |-> {},
                 oldSizeWithoutHoles |-> w.oldSizeWithoutHoles, err |-> "nil"]
    IN  IF nCopied # 0 /\ endOff # off + nCopied
        THEN [same EXCEPT !.err = "newBlockOff does not match"]
        ELSE IF ~(needExtendFile \/ needFillHole) THEN same
        ELSE RightBlockMade(w, g, st.heap[w.topBlock].IsInd, needFillHole,
                            newBlockOff,
                            newRightBlock(st, g.parentBlocks, newBlockOff))

RECURSIVE WriteLoop(_, _, _)

\* The rest of a turn of the loop, from `if oldLen != len(block.Contents)`
\* on; a is the outcome of `if nCopied < n`.
BlockWritten(w, data, off, g, nCopied, a) ==
    LET block == g.block
        oldLen == Len(g.st.heap[block].Contents)
        nextBlockOff == g.nextBlockStartOff
        w1 == [w EXCEPT !.st = a.st,
                        !.topBlock = a.topBlock,
                        !.nCopied = nCopied,
                        !.dirtyMap = @ \cup a.dirtyPtrs,
                        !.oldSizeWithoutHoles = a.oldSizeWithoutHoles,
                        !.turns = @ - 1]
        newLen == Len(a.st.heap[block].Contents)
        m == markParentsDirty(a.st, g.parentBlocks)
    IN  IF a.err # "nil" THEN [w1 EXCEPT !.err = a.err]
        ELSE IF nCopied = w.nCopied /\ ~a.switchToIndirect
        THEN WriteLoop(w1, data, off)
        ELSE WriteLoop(
                [w1 EXCEPT
                    !.st = cacher(m.st, a.ptr, block),
                    !.newDe =
                        IF oldLen # newLen /\ nextBlockOff < 0
                        THEN [Size |-> @.Size + newLen - oldLen,
                              EncodedSize |-> 0]
                        ELSE @,
                    !.newlyDirtiedChildBytes =
                        @ + newLen - (IF g.wasDirty THEN oldLen ELSE 0),
                    !.unrefs = @ \o m.unrefs,
                    !.dirtyMap = @ \cup m.dirtyPtrs \cup {a.ptr}],
                data, off)

\* A turn of the loop up to `if nCopied < n`; g is what getFileBlockAtOffset
\* returned.
WriteBlock(w, data, off, g) ==
    LET n == Len(data)
        block == g.block
        nextBlockOff == g.nextBlockStartOff
        max == IF nextBlockOff > 0 /\ nextBlockOff - off < n
               THEN nextBlockOff - off ELSE n
        c == CopyUntilSplit(g.st.heap[block].Contents, nextBlockOff < 0,
                            Slice(data, w.nCopied, max),
                            off + w.nCopied - g.startOff)
        st1 == [g.st EXCEPT !.heap[block].Contents = c.Contents]
        nCopied == w.nCopied + c.n
    IN  IF g.err # "nil" THEN [w EXCEPT !.err = g.err]
        ELSE IF max < w.nCopied THEN [w EXCEPT !.err = "panic"]
        ELSE BlockWritten(w, data, off, g, nCopied,
                 IF nCopied < n
                 THEN NeedAnotherBlock(w, g, st1, nCopied, off)
                 ELSE [st |-> st1, topBlock |-> w.topBlock, ptr |-> g.ptr,
                       switchToIndirect |-> FALSE, dirtyPtrs |-> {},
                       oldSizeWithoutHoles |-> w.oldSizeWithoutHoles,
                       err |-> "nil"])

\* The loop `for nCopied < n`; w holds the state, topBlock, nCopied, newDe,
\* dirtyMap, unrefs, newlyDirtiedChildBytes, oldSizeWithoutHoles, the error
\* and the number of turns left.
WriteLoop(w, data, off) ==
    IF w.nCopied >= Len(data) \/ w.err # "nil" THEN w
    ELSE IF w.turns = 0 THEN [w EXCEPT !.err = "no progress"]
    ELSE WriteBlock(w, data, off,
             getFileBlockAtOffset(w.st, w.topBlock, off + w.nCopied, "blockWrite"))

\* The end of write, after the loop left w: the top block is dirtied when it
\* is indirect, and bytesExtended is computed.
WriteReturn(w, data, off) ==
    LET top == w.st.heap[w.topBlock].IsInd
        lastByteWritten == off + Len(data)
    IN  IF w.err # "nil"
        THEN [st |-> w.st, newDe |-> w.newDe, dirtyPtrs |-> {},
              unrefs |-> w.unrefs,
              newlyDirtiedChildBytes |-> w.newlyDirtiedChildBytes,
              bytesExtended |-> 0, err |-> w.err]
        ELSE [st |-> IF top THEN cacher(w.st, RootPtr, w.topBlock) ELSE w.st,
              newDe |-> w.newDe,
              dirtyPtrs |-> IF top THEN w.dirtyMap \cup {RootPtr} ELSE w.dirtyMap,
              unrefs |-> w.unrefs,
              newlyDirtiedChildBytes |-> w.newlyDirtiedChildBytes,
              bytesExtended |->
                  IF lastByteWritten > w.oldSizeWithoutHoles
                  THEN lastByteWritten - w.oldSizeWithoutHoles ELSE 0,
              err |-> "nil"]

\* A write that clears the EncodedSize of the entry it returns in every case.
writeClearsEncodedSize(st, data, off, topBlock, oldDe) ==
    [WriteReturn(
         WriteLoop(
             [st |-> st, topBlock |-> topBlock, nCopied |-> 0,
              oldDe |-> oldDe, newDe |-> oldDe, dirtyMap |-> {},
              unrefs |-> <<>>, newlyDirtiedChildBytes |-> 0,
              oldSizeWithoutHoles |-> oldDe.Size, err |-> "nil",
              turns |-> 2 * Len(data) + 2],
             data, off),
         data, off) EXCEPT !.newDe.EncodedSize = 0]

\* write(ctx, data, off, topBlock, oldDe, df): the state afterwards and the
\* values returned.
write(st, data, off, topBlock, oldDe) ==
    WriteReturn(
        WriteLoop(
            [st |-> st, topBlock |-> topBlock, nCopied |-> 0,
             oldDe |-> oldDe, newDe |-> oldDe, dirtyMap |-> {},
             unrefs |-> <<>>, newlyDirtiedChildBytes |-> 0,
             oldSizeWithoutHoles |-> oldDe.Size, err |-> "nil",
             turns |-> 2 * Len(data) + 2],
            data, off),
        data, off)

(***************************************************************************)
(* truncateExtend                                                          *)
(***************************************************************************)
\* The loop `for i := range topBlock.IPtrs`.
MarkHoles(iptrs) == [i \in 1..Len(iptrs) |-> [iptrs[i] EXCEPT !.Holes = TRUE]]

\* truncateExtend from `topBlock = rightParents[0].pblock` on; r is what
\* newRightBlock returned.
RightBlockAppended(r, size, oldTopBlock, switchToIndirect) ==
    LET topBlock == r.rightParentBlocks[1].pblock
        first == r.st.heap[topBlock].IPtrs[1].BlockPointer
        st1 == IF switchToIndirect
               THEN cacher(r.st, first, oldTopBlock)
               ELSE r.st
        st2 == [st1 EXCEPT !.heap[topBlock].IPtrs = MarkHoles(@)]
    IN  [st |-> cacher(st2, RootPtr, topBlock),
         newDe |-> [Size |-> size, EncodedSize |-> 0],
         dirtyPtrs |-> (IF switchToIndirect THEN {first} ELSE {})
                          \cup r.newDirtyPtrs \cup {RootPtr},
         err |-> "nil"]

\* truncateExtend(ctx, size, topBlock, parentBlocks, oldDe, df)
truncateExtend(st, size, topBlock, parentBlocks, oldDe) ==
    RightBlockAppended(newRightBlock(st, parentBlocks, size), size, topBlock,
                       ~st.heap[topBlock].IsInd)

(***************************************************************************)
(* truncateShrink                                                          *)
(***************************************************************************)
\* getIndirectBlocksForOffsetRange(ctx, pblock, startOff, endOff)
getIndirectBlocksForOffsetRange(st, pblock, startOff, endOff) ==
    getLeafBlocksForOffsetRange(st, pblock, startOff, endOff, FALSE)

\* removeStartingFromIndex, as the number of pointers kept: the pointers
\* before the child's, and the child's too when some index below is not
\* the first.
RemoveStartingFromIndex(path, i) ==
    (path[i].childIndex - 1)
        + (IF \E j \in (i + 1)..Len(path) : path[j].childIndex > 1
           THEN 1 ELSE 0)

\* `pblock.IPtrs = pblock.IPtrs[:removeStartingFromIndex]` on the block the
\* getter gave for writing, and the cacher's call.
TruncatedIPtrs(x, g, keep) ==
    IF g.err # "nil" THEN [x EXCEPT !.err = g.err]
    ELSE [x EXCEPT
             !.st = cacher([g.st EXCEPT !.heap[g.block].IPtrs = SubSeq(@, 1, keep)],
                           x.parentInfo.BlockPointer, g.block),
             !.dirtyMap = @ \cup {x.parentInfo.BlockPointer}]

\* The body of `if ptrs == nil`: x holds the state, savedChildPtrs,
\* dirtyMap, unrefs, parentInfo and leftMost.
ProcessOnce(x, path, i) ==
    LET pb == path[i]
        ptrs == x.st.heap[pb.pblock].IPtrs
        saved == [p \in DOMAIN x.savedChildPtrs \cup {x.parentInfo.BlockPointer} |->
                     IF p = x.parentInfo.BlockPointer THEN ptrs
                     ELSE x.savedChildPtrs[p]]
    IN  IF pb.childIndex = 1 /\ ~x.leftMost
        THEN [x EXCEPT !.savedChildPtrs = saved,
                       !.unrefs = IF x.parentInfo.EncodedSize # 0
                                  THEN Append(@, x.parentInfo) ELSE @]
        ELSE IF RemoveStartingFromIndex(path, i) < Len(ptrs)
        THEN TruncatedIPtrs([x EXCEPT !.savedChildPtrs = saved],
                            getter(x.st, x.parentInfo.BlockPointer, "blockWrite"),
                            RemoveStartingFromIndex(path, i))
        ELSE [x EXCEPT !.savedChildPtrs = saved]

\* Down to the next level without the unreference of the leaf.
DownOneLevelKeepsLeaf(x, path, i) ==
    IF x.err # "nil" THEN x
    ELSE
        LET iptr == x.savedChildPtrs[x.parentInfo.BlockPointer][path[i].childIndex]
        IN  [x EXCEPT
                !.parentInfo = [BlockPointer |-> iptr.BlockPointer,
                                EncodedSize |-> iptr.EncodedSize],
                !.leftMost = IF path[i].childIndex > 1 THEN FALSE ELSE @]

\* `parentInfo = ptrs[pb.childIndex].BlockInfo` and what follows it.
DownOneLevel(x, path, i) ==
    IF x.err # "nil" THEN x
    ELSE
        LET iptr == x.savedChildPtrs[x.parentInfo.BlockPointer][path[i].childIndex]
            unref == i = Len(path) /\ iptr.EncodedSize # 0
        IN  [x EXCEPT
                !.parentInfo = [BlockPointer |-> iptr.BlockPointer,
                                EncodedSize |-> iptr.EncodedSize],
                !.unrefs = IF unref
                           THEN Append(@, [BlockPointer |-> iptr.BlockPointer,
                                           EncodedSize |-> iptr.EncodedSize])
                           ELSE @,
                !.leftMost = IF ~unref /\ path[i].childIndex > 1 THEN FALSE ELSE @]

\* The loop `for i, pb := range path`.
RECURSIVE DropPath(_, _, _)
DropPath(x, path, i) ==
    IF i > Len(path) \/ x.err # "nil" THEN x
    ELSE DropPath(
             DownOneLevel(
                 IF x.parentInfo.BlockPointer \in DOMAIN x.savedChildPtrs
                 THEN x ELSE ProcessOnce(x, path, i),
                 path, i),
             path, i + 1)

\* The loop `for _, path := range pfr`.
RECURSIVE DropPaths(_, _, _)
DropPaths(x, pfr, k) ==
    IF k > Len(pfr) \/ x.err # "nil" THEN x
    ELSE DropPaths(
             DropPath([x EXCEPT !.parentInfo = [BlockPointer |-> RootPtr,
                                                EncodedSize |-> 0],
                                !.leftMost = TRUE],
                      pfr[k], 1),
             pfr, k + 1)

\* The body of `if nextBlockOff > 0`; m is what markParentsDirty returned.
DropRight(m, topBlock, nextBlockOff, pfr) ==
    IF pfr.err # "nil"
    THEN [st |-> m.st, dirtyMap |-> {}, unrefs |-> <<>>, err |-> pfr.err]
    ELSE DropPaths([st |-> m.st, savedChildPtrs |-> <<>>,
                    dirtyMap |-> m.dirtyPtrs, unrefs |-> m.unrefs,
                    parentInfo |-> [BlockPointer |-> RootPtr, EncodedSize |-> 0],
                    leftMost |-> TRUE, err |-> "nil"],
                   pfr.pathsFromRoot, 1)

\* truncateShrink from `if topBlock.IsInd` on; d holds the state, dirtyMap
\* and unrefs.
ShrinkReturn(d, l, size, topBlock, oldDe) ==
    IF d.err # "nil"
    THEN [st |-> d.st, newDe |-> [Size |-> 0, EncodedSize |-> 0],
          dirtyPtrs |-> {}, unrefs |-> <<>>, err |-> d.err]
    ELSE [st |-> cacher(IF d.st.heap[topBlock].IsInd
                        THEN cacher(d.st, RootPtr, topBlock) ELSE d.st,
                        l.ptr, l.block),
          newDe |-> [oldDe EXCEPT !.EncodedSize = 0, !.Size = size],
          dirtyPtrs |-> d.dirtyMap
                          \cup (IF d.st.heap[topBlock].IsInd THEN {RootPtr} ELSE {})
                          \cup {l.ptr},
          unrefs |-> d.unrefs,
          err |-> "nil"]

\* truncateShrink after markParentsDirty; m is what it returned.
ParentsMarked(m, l, size, topBlock, oldDe) ==
    ShrinkReturn(
        IF l.nextBlockStartOff > 0
        THEN DropRight(m, topBlock, l.nextBlockStartOff,
                       getIndirectBlocksForOffsetRange(
                           m.st, topBlock, l.nextBlockStartOff, -1))
        ELSE [st |-> m.st, dirtyMap |-> m.dirtyPtrs, unrefs |-> m.unrefs,
              err |-> "nil"],
        l, size, topBlock, oldDe)

\* truncateShrink after getFileBlockAtOffset; l is what it returned.  The
\* slice expression block.Contents[:iSize-startOff] panics past the
\* capacity of the slice.
LeafLocated(l, size, topBlock, oldDe) ==
    IF l.err # "nil"
    THEN [st |-> l.st, newDe |-> [Size |-> 0, EncodedSize |-> 0],
          dirtyPtrs |-> {}, unrefs |-> <<>>, err |-> l.err]
    ELSE IF size < l.startOff \/ size - l.startOff > Len(l.st.heap[l.block].Contents)
    THEN [st |-> l.st, newDe |-> [Size |-> 0, EncodedSize |-> 0],
          dirtyPtrs |-> {}, unrefs |-> <<>>, err |-> "panic"]
    ELSE ParentsMarked(
             markParentsDirty(
                 [l.st EXCEPT !.heap[l.block].Contents =
                                  SubSeq(@, 1, size - l.startOff)],
                 l.parentBlocks),
             l, size, topBlock, oldDe)

\* truncateShrink(ctx, size, topBlock, oldDe)
truncateShrink(st, size, topBlock, oldDe) ==
    LeafLocated(getFileBlockAtOffset(st, topBlock, size, "blockWrite"),
                size, topBlock, oldDe)

(***************************************************************************)
(* getNextDirtyFileBlockAtOffset                                           *)
(***************************************************************************)
\* What the function returns when it finds no block (block is nil), or
\* fails.
NoDirtyBlock(st, err) ==
    [st |-> st, ptr |-> 0, parentBlocks |-> <<>>, block |-> 0,
     nextBlockStartOff |-> 0, startOff |-> 0, err |-> err]

\* The loop `for i, iptr := range block.IPtrs` (indices from 1): index is 0
\* when no pointer is chosen.  block.IPtrs[i-1] of the first pointer is out
\* of range.
RECURSIVE ScanDirty(_, _, _, _, _)
ScanDirty(st, iptrs, i, off, checkedPrevBlock) ==
    IF i > Len(iptrs)
    THEN [index |-> 0, checkedPrevBlock |-> checkedPrevBlock, err |-> "nil"]
    ELSE IF iptrs[i].Off < off
    THEN ScanDirty(st, iptrs, i + 1, off, checkedPrevBlock)
    ELSE IF ~(checkedPrevBlock \/ iptrs[i].Off = off) /\ i = 1
    THEN [index |-> 0, checkedPrevBlock |-> FALSE, err |-> "panic"]
    ELSE IF /\ ~(checkedPrevBlock \/ iptrs[i].Off = off)
            /\ iptrs[i - 1].BlockPointer \in st.dirty
    THEN [index |-> i - 1, checkedPrevBlock |-> FALSE, err |-> "nil"]
    ELSE IF iptrs[i].BlockPointer \in st.dirty
    THEN [index |-> i, checkedPrevBlock |-> TRUE, err |-> "nil"]
    ELSE ScanDirty(st, iptrs, i + 1, off, TRUE)

\* The loop `for block.IsInd`; r holds the values the function returns.
RECURSIVE SearchDirtyLeaf(_, _, _, _)
RECURSIVE DirtyChild(_, _, _, _)
SearchDirtyLeaf(r, off, rtype, checkedPrevBlock) ==
    IF r.err # "nil" \/ r.block = 0 \/ ~r.st.heap[r.block].IsInd THEN r
    ELSE DirtyChild(r, ScanDirty(r.st, r.st.heap[r.block].IPtrs, 1, off,
                                 checkedPrevBlock),
                    off, rtype)

\* The loop's body from `if index == -1` on; s is what the scan chose.
DirtyChild(r, s, off, rtype) ==
    IF s.err # "nil" THEN NoDirtyBlock(r.st, s.err)
    ELSE IF s.index = 0 THEN NoDirtyBlock(r.st, "nil")
    ELSE
        LET iptrs == r.st.heap[r.block].IPtrs
            g == getter(r.st, iptrs[s.index].BlockPointer, rtype)
        IN  IF g.err # "nil" THEN NoDirtyBlock(r.st, g.err)
            ELSE SearchDirtyLeaf(
                     [st |-> g.st,
                      ptr |-> iptrs[s.index].BlockPointer,
                      parentBlocks |->
                          Append(r.parentBlocks,
                                 parentBlockAndChildIndex(r.block, s.index)),
                      block |-> g.block,
                      nextBlockStartOff |->
                          IF s.index # Len(iptrs)
                          THEN iptrs[s.index + 1].Off
                          ELSE r.nextBlockStartOff,
                      startOff |-> iptrs[s.index].Off,
                      err |-> "nil"],
                     off, rtype, s.checkedPrevBlock)

\* getNextDirtyFileBlockAtOffset(ctx, topBlock, off, rtype, dirtyBcache)
getNextDirtyFileBlockAtOffset(st, topBlock, off, rtype) ==
    IF RootPtr \notin st.dirty THEN NoDirtyBlock(st, "nil")
    ELSE SearchDirtyLeaf([st |-> st, ptr |-> RootPtr, parentBlocks |-> <<>>,
                          block |-> topBlock, nextBlockStartOff |-> -1,
                          startOff |-> 0, err |-> "nil"],
                         off, rtype, FALSE)

(***************************************************************************)
(* split                                                                   *)
(***************************************************************************)
\* A byte the splitter's fingerprint ends a block after.
IsBoundary(byte) == byte % 10 = 2

\* bsplit.CheckSplit(block) of a splitter that ends a block after the first
\* boundary byte or at its capacity: the number of bytes to keep when the
\* block holds more, 0 when it ends where it should, -1 when it wants more
\* bytes.
CheckSplit(contents) ==
    LET cuts == {k \in 1..Len(contents) : IsBoundary(contents[k]) \/ k = fdMaxSize}
        cut == CHOOSE k \in cuts : \A j \in cuts : k <= j
    IN  IF cuts = {} THEN -1
        ELSE IF cut = Len(contents) THEN 0
        ELSE cut

\* The loop `for i := len(rParentBlocks) - 1; i >= 0; i--`.
RECURSIVE UpdateParentOffsets(_, _, _, _)
UpdateParentOffsets(st, rParentBlocks, i, endOfBlock) ==
    IF i < 1 THEN st
    ELSE IF rParentBlocks[i].childIndex > 1
    THEN [st EXCEPT !.heap[rParentBlocks[i].pblock]
                         .IPtrs[rParentBlocks[i].childIndex].Off = endOfBlock]
    ELSE UpdateParentOffsets(
             [st EXCEPT !.heap[rParentBlocks[i].pblock]
                            .IPtrs[rParentBlocks[i].childIndex].Off = endOfBlock],
             rParentBlocks, i - 1, endOfBlock)

\* `append(iptrs[:pb.childIndex], iptrs[pb.childIndex+1:]...)`
RemoveIPtr(iptrs, childIndex) ==
    SubSeq(iptrs, 1, childIndex - 1) \o SubSeq(iptrs, childIndex + 1, Len(iptrs))

\* `unrefs = append(unrefs, pb.childIPtr().BlockInfo)` and the line after
\* it, for the last of rParentBlocks.
UnrefRight(x, st, pb) ==
    [st |-> [st EXCEPT !.heap[pb.pblock].IPtrs[pb.childIndex].EncodedSize = 0],
     unrefs |-> Append(x.unrefs,
                       [BlockPointer |-> childIPtr(st, pb).BlockPointer,
                        EncodedSize |-> childIPtr(st, pb).EncodedSize]),
     err |-> "nil"]

RECURSIVE SplitLoop(_, _, _)

\* Both cases from markParentsDirty on; y holds the state and the unrefs.
\* pb.childIPtr() in markParentsDirty is out of range when the pointer
\* removed was the last one of its block.
SplitMarked(y, topBlock, rParentBlocks, endOfBlock) ==
    IF \E i \in 1..Len(rParentBlocks) :
           rParentBlocks[i].childIndex
               > Len(y.st.heap[rParentBlocks[i].pblock].IPtrs)
    THEN [y EXCEPT !.err = "panic"]
    ELSE SplitLoop([st |-> markParentsDirty(y.st, rParentBlocks).st,
                    unrefs |-> y.unrefs
                                  \o markParentsDirty(y.st, rParentBlocks).unrefs,
                    err |-> "nil"],
                   topBlock, endOfBlock)

\* case splitAt > 0, from `rblock.Contents = append(...)` on; l is what
\* getFileBlockAtOffset returned for the right block.
BytesPrepended(x, topBlock, d, extraBytes, l) ==
    IF l.err # "nil" THEN [x EXCEPT !.st = l.st, !.err = l.err]
    ELSE
        LET st1 == cacher([l.st EXCEPT !.heap[l.block].Contents = extraBytes \o @],
                          l.ptr, l.block)
            endOfBlock == d.startOff + Len(st1.heap[d.block].Contents)
            pb == l.parentBlocks[Len(l.parentBlocks)]
            y == UnrefRight(x, st1, pb)
        IN  SplitMarked([y EXCEPT !.st = UpdateParentOffsets(
                                            @, l.parentBlocks,
                                            Len(l.parentBlocks), endOfBlock)],
                        topBlock, l.parentBlocks, endOfBlock)

\* case splitAt > 0
TooManyBytes(x, topBlock, d, splitAt) ==
    LET contents == x.st.heap[d.block].Contents
        endOfBlock == d.startOff + Len(contents)
        st1 == [x.st EXCEPT !.heap[d.block].Contents = SubSeq(contents, 1, splitAt)]
    IN  BytesPrepended(
            x, topBlock, d, SubSeq(contents, splitAt + 1, Len(contents)),
            getFileBlockAtOffset(
                IF d.nextBlockStartOff < 0
                THEN newRightBlock(st1, d.parentBlocks, endOfBlock).st
                ELSE st1,
                topBlock, endOfBlock, "blockWrite"))

\* case splitAt < 0, from `rblock.Contents = rblock.Contents[nCopied:]` on;
\* st holds the block as CopyUntilSplit left it.
BytesTaken(x, topBlock, d, l, st, nCopied) ==
    LET st1 == [st EXCEPT !.heap[l.block].Contents = SubSeq(@, nCopied + 1, Len(@))]
        endOfBlock == d.startOff + Len(st1.heap[d.block].Contents)
        pb == l.parentBlocks[Len(l.parentBlocks)]
        y == UnrefRight(x, st1, pb)
    IN  SplitMarked(
            IF Len(st1.heap[l.block].Contents) > 0
            THEN [y EXCEPT !.st = UpdateParentOffsets(
                                      cacher(@, l.ptr, l.block), l.parentBlocks,
                                      Len(l.parentBlocks), endOfBlock)]
            ELSE [y EXCEPT !.st.heap[pb.pblock].IPtrs =
                               RemoveIPtr(@, pb.childIndex)],
            topBlock, l.parentBlocks, endOfBlock)

\* case splitAt < 0 with a next block; l is what getFileBlockAtOffset
\* returned for the right block, c what CopyUntilSplit did.
TooFewBytes(x, topBlock, d, l) ==
    IF l.err # "nil" THEN [x EXCEPT !.st = l.st, !.err = l.err]
    ELSE
        LET c == CopyUntilSplit(l.st.heap[d.block].Contents, FALSE,
                                l.st.heap[l.block].Contents,
                                Len(l.st.heap[d.block].Contents))
        IN  BytesTaken(x, topBlock, d, l,
                       [l.st EXCEPT !.heap[d.block].Contents = c.Contents], c.n)

\* The body of the loop `for off >= 0` after getNextDirtyFileBlockAtOffset;
\* d is what it returned.
SplitBlock(x, topBlock, d, splitAt) ==
    IF splitAt = 0 THEN SplitLoop(x, topBlock, d.nextBlockStartOff)
    ELSE IF splitAt > 0 THEN TooManyBytes(x, topBlock, d, splitAt)
    ELSE IF d.nextBlockStartOff < 0 THEN x
    ELSE TooFewBytes(x, topBlock, d,
                     getFileBlockAtOffset(
                         x.st, topBlock,
                         d.startOff + Len(x.st.heap[d.block].Contents),
                         "blockWrite"))

DirtyBlockFound(x, topBlock, d) ==
    IF d.err # "nil" THEN [x EXCEPT !.err = d.err]
    ELSE IF d.block = 0 THEN x
    ELSE SplitBlock([x EXCEPT !.st = d.st], topBlock, d,
                    CheckSplit(d.st.heap[d.block].Contents))

\* The loop `for off >= 0`.
SplitLoop(x, topBlock, off) ==
    IF off < 0 \/ x.err # "nil" THEN x
    ELSE DirtyBlockFound(x, topBlock,
             getNextDirtyFileBlockAtOffset(x.st, topBlock, off, "blockWrite"))

\* split(ctx, id, dirtyBcache, topBlock, df)
split(st, topBlock) ==
    IF ~st.heap[topBlock].IsInd
    THEN [st |-> st, unrefs |-> <<>>, err |-> "nil"]
    ELSE SplitLoop([st |-> st, unrefs |-> <<>>, err |-> "nil"], topBlock, 0)

(***************************************************************************)
(* ready                                                                   *)
(***************************************************************************)
\* The loop `for off >= 0` that gathers the paths to the dirty leaves; x
\* holds the state, dirtyLeafPaths and the error.  The last entry of a path
\* is the leaf itself.
RECURSIVE GatherDirtyLeafPaths(_, _, _)
RECURSIVE DirtyLeafGathered(_, _, _)
GatherDirtyLeafPaths(x, topBlock, off) ==
    IF off < 0 \/ x.err # "nil" THEN x
    ELSE DirtyLeafGathered(x, topBlock,
             getNextDirtyFileBlockAtOffset(x.st, topBlock, off, "blockWrite"))

DirtyLeafGathered(x, topBlock, d) ==
    IF d.err # "nil" THEN [x EXCEPT !.err = d.err]
    ELSE IF d.block = 0 THEN x
    ELSE GatherDirtyLeafPaths(
             [x EXCEPT !.st = d.st,
                       !.dirtyLeafPaths =
                           Append(@, Append(d.parentBlocks,
                                            parentBlockAndChildIndex(d.block, 0)))],
             topBlock, d.nextBlockStartOff)

\* ReadyBlock and bcache.Put for the block pb.pblock, and the new BlockInfo
\* in the parent's pointer; the new permanent ID is st.nextID and the
\* encoded size of a block is never zero.
ReadyOne(x, pb, parentPB) ==
    LET block == x.st.heap[pb.pblock]
        newInfo == [BlockPointer |-> x.st.nextID,
                    EncodedSize |-> 1 + Len(block.Contents) + Len(block.IPtrs)]
        ptr == childIPtr(x.st, parentPB).BlockPointer
    IN  [x EXCEPT
            !.st = [@ EXCEPT
                       !.nextID = @ + 1,
                       !.cache = [p \in DOMAIN @ \cup {newInfo.BlockPointer} |->
                                     IF p = newInfo.BlockPointer THEN pb.pblock
                                     ELSE @[p]],
                       !.heap[parentPB.pblock].IPtrs[parentPB.childIndex] =
                           [@ EXCEPT !.BlockPointer = newInfo.BlockPointer,
                                     !.EncodedSize = newInfo.EncodedSize]],
            !.oldPtrs = @ \cup {[info |-> newInfo, ptr |-> ptr]}]

\* The loop `for i := 0; i < len(dirtyLeafPaths); i++` at one level.  Nothing
\* is ever put into newPtrs, so no block is skipped; a path shorter than the
\* first one is indexed out of range.
RECURSIVE ReadyLevel(_, _, _)
ReadyLevel(x, level, i) ==
    IF i > Len(x.dirtyLeafPaths) \/ x.err # "nil" THEN x
    ELSE IF level > Len(x.dirtyLeafPaths[i])
    THEN [x EXCEPT !.err = "panic"]
    ELSE IF childIPtr(x.st, x.dirtyLeafPaths[i][level - 1]).BlockPointer \in {}
    THEN ReadyLevel(x, level, i + 1)
    ELSE ReadyLevel(ReadyOne(x, x.dirtyLeafPaths[i][level],
                             x.dirtyLeafPaths[i][level - 1]),
                    level, i + 1)

\* The loop `for level := len(dirtyLeafPaths[0]) - 1; level > 0; level--`.
RECURSIVE ReadyLevels(_, _)
ReadyLevels(x, level) ==
    IF level < 2 \/ x.err # "nil" THEN x
    ELSE ReadyLevels(ReadyLevel(x, level, 1), level - 1)

\* ready from `if len(dirtyLeafPaths) == 0` on.
DirtyLeavesGathered(x) ==
    IF x.err # "nil" \/ Len(x.dirtyLeafPaths) = 0 THEN x
    ELSE ReadyLevels(x, Len(x.dirtyLeafPaths[1]))

\* ready(ctx, id, bcache, dirtyBcache, bops, bps, topBlock, df)
ready(st, topBlock) ==
    IF ~st.heap[topBlock].IsInd
    THEN [st |-> st, dirtyLeafPaths |-> <<>>, oldPtrs |-> {}, err |-> "nil"]
    ELSE DirtyLeavesGathered(
             GatherDirtyLeafPaths(
                 [st |-> st, dirtyLeafPaths |-> <<>>, oldPtrs |-> {},
                  err |-> "nil"],
                 topBlock, 0))

(***************************************************************************)
(* The file's specification: a file that starts empty, under a splitter    *)
(* drawn from the bounds, takes write calls and read calls.  The caller of *)
(* write gets topBlock from the getter for writing and installs the        *)
(* DirEntry write returns when write returns no error.                     *)
(***************************************************************************)
\* The bytes of the k'th write: no two the same, none zero.
Data(k, len) == [i \in 1..len |-> 10 * k + i]

\* The file a call is made on: its blocks, the dirty pointers and the
\* DirEntry.
Pre == [blocks |-> fdBlocks, dirty |-> fdDirty, de |-> fdDe]

InitFD ==
    /\ NewConflictResolver
    /\ fdBlocks = (RootPtr :> EmptyBlock)
    /\ fdDirty \in {{}, {RootPtr}}
    /\ fdNextID = RootPtr + 1
    /\ fdDe = [Size |-> 0, EncodedSize |-> 0]
    /\ fdMaxSize \in 1..MaxCap
    /\ fdMaxPtrs \in 2..MaxPtrs
    /\ fdWrites = 0
    /\ fdOps = 0
    /\ fdW = NoCall
    /\ fdR = NoCall
    /\ rcChains = <<>>
    /\ rcRenamed = <<>>
    /\ rcMergedPaths = <<>>
    /\ rcCall = NoCall
    /\ rcMerged = <<>>
    /\ rcPaths = {}

\* A call of write by a caller that got topBlock from the getter for
\* writing, and what the caller does with the values returned.
WriteCall ==
    /\ fdR = NoCall
    /\ \E off \in 0..MaxOff, len \in 1..MaxLen :
        \E data \in {Data(fdWrites + 1, len)},
           g \in {getter(WorkingState(fdBlocks, fdDirty, fdNextID), RootPtr,
                        "blockWrite")} :
          \E r \in {write(g.st, data, off, g.block, fdDe)} :
            /\ fdBlocks' = BlocksOf(r.st)
            /\ fdDirty' = r.st.dirty
            /\ fdNextID' = r.st.nextID
            /\ fdDe' = IF r.err = "nil" THEN r.newDe ELSE fdDe
            /\ fdW' = [op |-> "write", pre |-> Pre, off |-> off, data |-> data,
                       newDe |-> r.newDe, dirtyPtrs |-> r.dirtyPtrs,
                       cached |-> r.st.cached, unrefs |-> r.unrefs,
                       newlyDirtiedChildBytes |-> r.newlyDirtiedChildBytes,
                       bytesExtended |-> r.bytesExtended, err |-> r.err]
    /\ fdWrites' = fdWrites + 1
    /\ fdOps' = fdOps + 1
    /\ UNCHANGED <<crVars, rcVars, fdMaxSize, fdMaxPtrs, fdR>>

Write ==
    /\ fdWrites < MaxWrites
    /\ WriteCall

Read ==
    /\ fdR = NoCall
    /\ \E off \in 0..MaxOff, len \in 1..MaxLen :
        \E r \in {read(WorkingState(fdBlocks, fdDirty, fdNextID), len, off)} :
            fdR' = [op |-> "read", off |-> off, len |-> len, n |-> r.n,
                    dest |-> r.dest, err |-> r.err]
    /\ UNCHANGED <<crVars, rcVars, fdBlocks, fdDirty, fdNextID, fdDe, fdMaxSize,
                   fdMaxPtrs, fdWrites, fdOps, fdW>>

\* The caller of read is done with the buffer.
ReadReturn ==
    /\ fdR # NoCall
    /\ fdR' = NoCall
    /\ UNCHANGED <<crVars, rcVars, fdBlocks, fdDirty, fdNextID, fdDe, fdMaxSize,
                   fdMaxPtrs, fdWrites, fdOps, fdW>>

NextFD ==
    \/ Write
    \/ Read
    \/ ReadReturn

SpecFD == InitFD /\ [][NextFD]_vars

(***************************************************************************)
(* The file under every call: a file that starts empty takes up to MaxOps  *)
(* calls that change it, and read calls.  The caller of a truncate locates *)
(* the leaf of the new size first: it extends the file when the size is    *)
(* past the end of the last leaf, and shrinks it when the size is inside   *)
(* a leaf or at the end of a leaf that is not the last one.                *)
(***************************************************************************)
FileWrite ==
    /\ fdOps < MaxOps
    /\ WriteCall

TruncateExtend ==
    /\ fdOps < MaxOps
    /\ fdR = NoCall
    /\ \E size \in 1..MaxOff :
        \E g \in {getter(WorkingState(fdBlocks, fdDirty, fdNextID), RootPtr,
                         "blockWrite")} :
          \E l \in {getFileBlockAtOffset(g.st, g.block, size, "blockWrite")} :
            /\ l.err = "nil"
            /\ l.startOff + Len(l.st.heap[l.block].Contents) < size
            /\ l.nextBlockStartOff < 0
            /\ \E r \in {truncateExtend(l.st, size, g.block, l.parentBlocks, fdDe)} :
                /\ fdBlocks' = BlocksOf(r.st)
                /\ fdDirty' = r.st.dirty
                /\ fdNextID' = r.st.nextID
                /\ fdDe' = r.newDe
                /\ fdW' = [op |-> "truncateExtend", pre |-> Pre, size |-> size,
                           newDe |-> r.newDe, dirtyPtrs |-> r.dirtyPtrs,
                           err |-> r.err]
    /\ fdOps' = fdOps + 1
    /\ UNCHANGED <<crVars, rcVars, fdMaxSize, fdMaxPtrs, fdWrites, fdR>>

\* The caller shrinks the file when the size is inside the leaf located for
\* it, or at the end of a leaf that another leaf follows.
TruncateShrink ==
    /\ fdOps < MaxOps
    /\ fdR = NoCall
    /\ \E size \in 0..MaxOff :
        \E g \in {getter(WorkingState(fdBlocks, fdDirty, fdNextID), RootPtr,
                         "blockWrite")} :
          \E l \in {getFileBlockAtOffset(g.st, g.block, size, "blockWrite")} :
            /\ l.err = "nil"
            /\ l.startOff + Len(l.st.heap[l.block].Contents) >= size
            /\ ~(/\ l.startOff + Len(l.st.heap[l.block].Contents) = size
                 /\ l.nextBlockStartOff < 0)
            /\ \E r \in {truncateShrink(l.st, size, g.block, fdDe)} :
                /\ fdBlocks' = BlocksOf(r.st)
                /\ fdDirty' = r.st.dirty
                /\ fdNextID' = r.st.nextID
                /\ fdDe' = IF r.err = "nil" THEN r.newDe ELSE fdDe
                /\ fdW' = [op |-> "truncateShrink", pre |-> Pre, size |-> size,
                           newDe |-> r.newDe, dirtyPtrs |-> r.dirtyPtrs,
                           unrefs |-> r.unrefs, err |-> r.err]
    /\ fdOps' = fdOps + 1
    /\ UNCHANGED <<crVars, rcVars, fdMaxSize, fdMaxPtrs, fdWrites, fdR>>

NextFile ==
    \/ FileWrite
    \/ TruncateExtend
    \/ TruncateShrink
    \/ Read
    \/ ReadReturn

SpecFile == InitFD /\ [][NextFile]_vars

(***************************************************************************)
(* The file's tree under every call that changes it, split and the sync of *)
(* the file included.                                                      *)
(***************************************************************************)
\* A call of split by a caller that got topBlock from the getter for
\* writing.
Split ==
    /\ fdOps < MaxOps
    /\ fdR = NoCall
    /\ \E g \in {getter(WorkingState(fdBlocks, fdDirty, fdNextID), RootPtr,
                        "blockWrite")} :
        \E r \in {split(g.st, g.block)} :
            /\ fdBlocks' = BlocksOf(r.st)
            /\ fdDirty' = r.st.dirty
            /\ fdNextID' = r.st.nextID
            /\ fdW' = [op |-> "split", pre |-> Pre, unrefs |-> r.unrefs,
                       err |-> r.err]
    /\ fdOps' = fdOps + 1
    /\ UNCHANGED <<crVars, rcVars, fdDe, fdMaxSize, fdMaxPtrs, fdWrites, fdR>>

\* The blocks after the put of what ready made: a block that got a
\* permanent pointer is no longer kept under its old one.
Synced(r) ==
    [p \in DOMAIN r.st.cache \ {o.ptr : o \in r.oldPtrs} |->
        r.st.heap[r.st.cache[p]]]

\* The sync of a file with dirty blocks: ready, the put of the blocks it
\* made, and the root, which is the caller's to ready.  The blocks put, and
\* the root, are dirty no more, and the directory entry holds the encoded
\* size of the root.
Sync ==
    /\ fdDirty # {}
    /\ fdR = NoCall
    /\ \E g \in {getter(WorkingState(fdBlocks, fdDirty, fdNextID), RootPtr,
                        "blockWrite")} :
        \E r \in {ready(g.st, g.block)} :
            /\ fdBlocks' = IF r.err = "nil" THEN Synced(r) ELSE fdBlocks
            /\ fdDirty' = IF r.err = "nil"
                          THEN r.st.dirty \ ({RootPtr} \cup {o.ptr : o \in r.oldPtrs})
                          ELSE fdDirty
            /\ fdNextID' = IF r.err = "nil" THEN r.st.nextID ELSE fdNextID
            /\ fdDe' = IF r.err = "nil"
                       THEN [fdDe EXCEPT !.EncodedSize =
                                1 + Len(Synced(r)[RootPtr].Contents)
                                  + Len(Synced(r)[RootPtr].IPtrs)]
                       ELSE fdDe
            /\ fdW' = [op |-> "sync", pre |-> Pre, oldPtrs |-> r.oldPtrs,
                       err |-> r.err]
    /\ UNCHANGED <<crVars, rcVars, fdMaxSize, fdMaxPtrs, fdWrites, fdOps, fdR>>

\* A read whose context reaches its deadline during the fetch of the blocks
\* of late: blocks that are not dirty, which the getter has to fetch.
ReadPrefix ==
    /\ fdR = NoCall
    /\ \E off \in 0..MaxOff, len \in 1..MaxLen,
          late \in SUBSET (DOMAIN fdBlocks \ (fdDirty \cup {RootPtr})) :
        /\ late # {}
        /\ Cardinality(late) <= MaxLate
        /\ \E r \in {read([WorkingState(fdBlocks, fdDirty, fdNextID)
                               EXCEPT !.late = late], len, off)} :
              fdR' = [op |-> "read", off |-> off, len |-> len, n |-> r.n,
                      dest |-> r.dest, err |-> r.err, late |-> late]
    /\ UNCHANGED <<crVars, rcVars, fdBlocks, fdDirty, fdNextID, fdDe, fdMaxSize,
                   fdMaxPtrs, fdWrites, fdOps, fdW>>

SpecPrefix ==
    InitFD /\ [][FileWrite \/ Sync \/ ReadPrefix \/ ReadReturn]_vars

(***************************************************************************)
(* getLeafBlocksForOffsetRange, its goroutines one step at a time.         *)
(*                                                                         *)
(* A call in flight is the record fdR.  A goroutine, and the call it makes *)
(* on the block it fetched, is named by the child indices from the top     *)
(* block down (<<>> is the top call); pc is "fetch" before its getter      *)
(* returns, "wait" while its call is in eg.Wait(), "send" before           *)
(* `respCh <- r` and "returned" after it; egErr is the error of the call's *)
(* error group, resp the channels that hold a response.                    *)
(***************************************************************************)
\* The loop `for i, iptr := range pblock.IPtrs` of the call id on a block
\* of pointers iptrs: a goroutine is started for every child in range.
SpawnChildren(x, id, iptrs) ==
    LET left(i) == i = Len(iptrs) \/ x.startOff < iptrs[i + 1].Off
        right(i) == x.endOff = -1 \/ x.endOff > iptrs[i].Off
        spawned == {i \in 1..Len(iptrs) :
                       /\ left(i)
                       /\ \A j \in 1..i : left(j) => right(j)}
    IN  [x EXCEPT
            !.pc = [c \in {Append(id, i) : i \in spawned} |-> "fetch"]
                      @@ (id :> "wait") @@ @,
            !.ptr = [c \in {Append(id, i) : i \in spawned} |->
                        iptrs[c[Len(c)]].BlockPointer] @@ @,
            !.egErr = (id :> "nil") @@ @]

\* A call of getLeafBlocksForOffsetRange on the file's indirect top block,
\* under a block store that fails the fetch of the blocks of late.
LeafBlocksStart ==
    /\ fdR = NoCall
    /\ fdBlocks[RootPtr].IsInd
    /\ \E startOff \in 0..MaxOff, len \in 1..MaxLen, prefixOk \in BOOLEAN,
          late \in SUBSET (DOMAIN fdBlocks \ {RootPtr}) :
        /\ Cardinality(late) <= MaxLate
        /\ fdR' = SpawnChildren(
                      [op |-> "getLeafBlocksForOffsetRange",
                       startOff |-> startOff,
                       endOff |-> startOff + len,
                       prefixOk |-> prefixOk, late |-> late,
                       pc |-> <<>>, ptr |-> <<>>, egErr |-> <<>>, resp |-> {},
                       err |-> "none"],
                      <<>>, fdBlocks[RootPtr].IPtrs)
    /\ UNCHANGED <<crVars, rcVars, fdBlocks, fdDirty, fdNextID, fdDe, fdMaxSize,
                   fdMaxPtrs, fdWrites, fdOps, fdW>>

\* A goroutine whose error the group does not record.
GoroutineReturnsUnrecorded(x, id, e) ==
    [x EXCEPT !.pc[id] = "returned"]

\* The goroutine id returns e to the error group of its parent's call: the
\* group keeps its first error.
GoroutineReturns(x, id, e) ==
    [x EXCEPT !.pc[id] = "returned",
              !.egErr[SubSeq(id, 1, Len(id) - 1)] =
                  IF @ = "nil" THEN e ELSE @]

\* A step of a goroutine `eg.Go(func() error {...})`: the getter returns
\* (with context.Canceled, possibly, once an error group above has an
\* error) and the call on the child begins, or the response is sent.
ChildGoroutine ==
    /\ fdR.op = "getLeafBlocksForOffsetRange"
    /\ \E id \in DOMAIN fdR.pc :
        \/ /\ fdR.pc[id] = "fetch"
           /\ \E g \in {getter([WorkingState(fdBlocks, fdDirty, fdNextID)
                                   EXCEPT !.late = fdR.late],
                               fdR.ptr[id], "blockReadParallel")},
                 canceled \in BOOLEAN :
                /\ canceled => \E k \in 0..(Len(id) - 1) :
                                  fdR.egErr[SubSeq(id, 1, k)] # "nil"
                /\ fdR' = IF canceled
                          THEN GoroutineReturns(fdR, id, "context.Canceled")
                          ELSE IF g.err # "nil"
                          THEN GoroutineReturns(fdR, id, g.err)
                          ELSE IF ~fdBlocks[fdR.ptr[id]].IsInd
                          THEN [fdR EXCEPT !.pc[id] = "send"]
                          ELSE SpawnChildren(fdR, id, fdBlocks[fdR.ptr[id]].IPtrs)
        \/ /\ fdR.pc[id] = "send"
           /\ fdR' = GoroutineReturns([fdR EXCEPT !.resp = @ \cup {id}], id, "nil")
    /\ UNCHANGED <<crVars, rcVars, fdBlocks, fdDirty, fdNextID, fdDe, fdMaxSize,
                   fdMaxPtrs, fdWrites, fdOps, fdW>>

\* `err = eg.Wait()` of the call id returns, all its goroutines having
\* returned, and the call goes through respChans: it returns the error, or
\* panics on an empty channel when !prefixOk, or has its result.
GroupWait ==
    /\ fdR.op = "getLeafBlocksForOffsetRange"
    /\ \E id \in DOMAIN fdR.pc :
        LET children == {c \in DOMAIN fdR.pc :
                            Len(c) = Len(id) + 1 /\ SubSeq(c, 1, Len(id)) = id}
            err == IF fdR.prefixOk /\ fdR.egErr[id] = "context.DeadlineExceeded"
                   THEN "nil" ELSE fdR.egErr[id]
            result == IF err # "nil" THEN err
                      ELSE IF children \subseteq fdR.resp \/ fdR.prefixOk
                      THEN "nil"
                      ELSE "panic"
        IN  /\ fdR.pc[id] = "wait"
            /\ \A c \in children : fdR.pc[c] = "returned"
            /\ fdR' = IF id = <<>> \/ result = "panic"
                      THEN [fdR EXCEPT !.pc[id] = "returned", !.err = result]
                      ELSE IF result # "nil"
                      THEN GoroutineReturns(fdR, id, result)
                      ELSE [fdR EXCEPT !.pc[id] = "send"]
    /\ UNCHANGED <<crVars, rcVars, fdBlocks, fdDirty, fdNextID, fdDe, fdMaxSize,
                   fdMaxPtrs, fdWrites, fdOps, fdW>>

SpecEG ==
    InitFD /\ [][Write \/ LeafBlocksStart \/ ChildGoroutine \/ GroupWait]_vars

(***************************************************************************)
(* undupChildrenInCopy                                                     *)
(***************************************************************************)
\* The loop `for i, iptr := range topBlock.IPtrs` from index i on; x holds
\* the state, blockInfos, the error returned and whether a call of the
\* getter or of ReadyBlock returned an error.  nonces holds the indices of
\* the pointers with a RefNonce; ReadyBlock fails for the blocks of bad, and
\* answers the zero BlockInfo then.
RECURSIVE UndupChildren(_, _, _, _, _)
UndupChildren(x, topBlock, i, nonces, bad) ==
    LET iptrs == x.st.heap[topBlock].IPtrs
        childReady(g, readyErr) ==
            LET readied(newInfo) ==
                    [x EXCEPT
                        !.st = [@ EXCEPT
                                   !.nextID = IF readyErr THEN @ ELSE @ + 1,
                                   !.heap[topBlock].IPtrs[i] =
                                       [@ EXCEPT
                                           !.BlockPointer = newInfo.BlockPointer,
                                           !.EncodedSize = newInfo.EncodedSize]],
                        !.blockInfos = Append(@, newInfo),
                        !.failed = @ \/ readyErr]
            IN  readied(IF readyErr THEN [BlockPointer |-> 0, EncodedSize |-> 0]
                        ELSE [BlockPointer |-> x.st.nextID,
                              EncodedSize |->
                                  1 + Len(x.st.heap[g.block].Contents)
                                    + Len(x.st.heap[g.block].IPtrs)])
        child(g) ==
            IF g.err # "nil"
            THEN [x EXCEPT !.blockInfos = <<>>, !.err = g.err, !.failed = TRUE]
            ELSE UndupChildren(childReady(g, iptrs[i].BlockPointer \in bad),
                               topBlock, i + 1, nonces, bad)
    IN  IF i > Len(iptrs) THEN x
        ELSE IF i \notin nonces
        THEN UndupChildren(
                 [x EXCEPT !.blockInfos =
                               Append(@, [BlockPointer |-> iptrs[i].BlockPointer,
                                          EncodedSize |-> iptrs[i].EncodedSize])],
                 topBlock, i + 1, nonces, bad)
        ELSE child(getter(x.st, iptrs[i].BlockPointer, "blockRead"))

\* undupChildrenInCopy(ctx, bcache, bops, bps, topBlock)
undupChildrenInCopy(st, topBlock, nonces, bad) ==
    IF ~st.heap[topBlock].IsInd
    THEN [st |-> st, blockInfos |-> <<>>, err |-> "nil", failed |-> FALSE]
    ELSE UndupChildren(
             [st |-> st,
              blockInfos |-> [k \in 1..Len(st.heap[topBlock].IPtrs) |->
                                 [BlockPointer |-> 0, EncodedSize |-> 0]],
              err |-> "nil", failed |-> FALSE],
             topBlock, 1, nonces, bad)

\* A call of undupChildrenInCopy with a copy of the file's top block, under a
\* block store that fails the fetch of the blocks of late and the
\* ReadyBlock of the blocks of bad.
UndupChildrenInCopy ==
    /\ fdOps < MaxOps
    /\ fdR = NoCall
    /\ \E nonces \in SUBSET (1..Len(fdBlocks[RootPtr].IPtrs)),
          late \in SUBSET {fdBlocks[RootPtr].IPtrs[k].BlockPointer :
                              k \in 1..Len(fdBlocks[RootPtr].IPtrs)},
          bad \in SUBSET {fdBlocks[RootPtr].IPtrs[k].BlockPointer :
                             k \in 1..Len(fdBlocks[RootPtr].IPtrs)} :
        /\ Cardinality(late \cup bad) <= MaxLate
        /\ \E r \in {undupChildrenInCopy(
                          NewObject([WorkingState(fdBlocks, fdDirty, fdNextID)
                                        EXCEPT !.late = late],
                                    fdBlocks[RootPtr]),
                          Len(HeapOf(fdBlocks, fdNextID - 1)) + 1, nonces, bad)} :
              fdW' = [op |-> "undupChildrenInCopy", pre |-> Pre,
                      nonces |-> nonces, late |-> late, bad |-> bad,
                      topBlock |-> r.st.heap[Len(r.st.heap)],
                      blockInfos |-> r.blockInfos, failed |-> r.failed,
                      err |-> r.err]
    /\ fdOps' = fdOps + 1
    /\ UNCHANGED <<crVars, rcVars, fdBlocks, fdDirty, fdNextID, fdDe, fdMaxSize,
                   fdMaxPtrs, fdWrites, fdR>>

SpecUndup == InitFD /\ [][FileWrite \/ UndupChildrenInCopy]_vars

\* A file written byte after byte: the write of one byte at the end of a
\* file nothing else was done to.
AppendWrite ==
    /\ fdOps = 0
    /\ fdWrites < MaxLeaves
    /\ fdR = NoCall
    /\ \E g \in {getter(WorkingState(fdBlocks, fdDirty, fdNextID), RootPtr,
                        "blockWrite")} :
          \E r \in {write(g.st, Data(fdWrites + 1, 1), fdDe.Size, g.block, fdDe)} :
            /\ fdBlocks' = BlocksOf(r.st)
            /\ fdDirty' = r.st.dirty
            /\ fdNextID' = r.st.nextID
            /\ fdDe' = IF r.err = "nil" THEN r.newDe ELSE fdDe
            /\ fdW' = [op |-> "write", pre |-> Pre, off |-> fdDe.Size,
                       data |-> Data(fdWrites + 1, 1),
                       newDe |-> r.newDe, dirtyPtrs |-> r.dirtyPtrs,
                       cached |-> r.st.cached, unrefs |-> r.unrefs,
                       newlyDirtiedChildBytes |-> r.newlyDirtiedChildBytes,
                       bytesExtended |-> r.bytesExtended, err |-> r.err]
    /\ fdWrites' = fdWrites + 1
    /\ UNCHANGED <<crVars, rcVars, fdMaxSize, fdMaxPtrs, fdOps, fdR>>

SpecDeep == InitFD /\ [][AppendWrite \/ TruncateShrink \/ Read \/ ReadReturn]_vars

NextTree ==
    \/ FileWrite
    \/ TruncateExtend
    \/ TruncateShrink
    \/ Split
    \/ Sync

SpecTree == InitFD /\ [][NextTree]_vars


(***************************************************************************)
(* fixRenameCycles                                                         *)
(*                                                                         *)
(* The directories are the root (1), a (2), b (3) and c (4).  A directory  *)
(* that a branch changed has the most recent pointer original + 10 in the  *)
(* unmerged branch and original + 20 in the merged one.  An op is a record *)
(* [kind, renamed, name, Type, crSymPath, dropThis]: name is the NewName   *)
(* of a createOp and the OldName of a rmOp.                                *)
(***************************************************************************)
\* A symPath of one level, whatever the place of the cycle.
SymPathOfParent(n) == "./../"

\* symPath for n turns of `for j := len(mergedPath.path); j > i; j--`.
RECURSIVE SymPath(_)
SymPath(n) == IF n = 0 THEN "./" ELSE SymPath(n - 1) \o "../"

\* `if original == ptr`: the ops of the new parent's chain, every renamed
\* createOp of the new name made a symlink of n levels (the `break` after
\* `found = true` leaves the switch, not the loop), and for each of them
\* the first rmOp of the old name in the old parent's chain dropped.
\* oldParentChain is nil when the old parent has no chain.
FixCycle(x, info, n) ==
    LET np == info.originalNewParent
        ops == x.chains[np].ops
        cops == {k \in 1..Len(ops) :
                    /\ ops[k].kind = "create"
                    /\ ops[k].renamed
                    /\ ops[k].name = info.newName}
        fixed == [x.chains EXCEPT ![np].ops =
                     [k \in 1..Len(ops) |->
                         IF k \in cops
                         THEN [ops[k] EXCEPT !.Type = "Sym",
                                             !.crSymPath = SymPath(n)]
                         ELSE ops[k]]]
        old == info.originalOldParent
        rms == {k \in 1..Len(fixed[old].ops) :
                   /\ fixed[old].ops[k].kind = "rm"
                   /\ fixed[old].ops[k].name = info.oldName}
    IN  IF cops = {} THEN [x EXCEPT !.err = "couldn't find rename op"]
        ELSE IF old \notin DOMAIN x.chains
        THEN [chains |-> fixed, err |-> "panic"]
        ELSE IF rms = {} THEN [x EXCEPT !.chains = fixed]
        ELSE [x EXCEPT !.chains =
                 [fixed EXCEPT ![old].ops[CHOOSE k \in rms : \A j \in rms : k <= j]
                                   .dropThis = TRUE]]

\* The loop `for i, pn := range mergedPath.path`, from the i-th node on.  A
\* node that the merged branch did not change is its own original.
RECURSIVE FixPath(_, _, _, _, _)
FixPath(x, ptr, info, mergedPath, i) ==
    IF x.err # "nil" \/ i > Len(mergedPath) THEN x
    ELSE LET pn == mergedPath[i]
             original == IF pn > 20 THEN pn - 20 ELSE pn
         IN  FixPath(IF original = ptr
                     THEN FixCycle(x, info, Len(mergedPath) - i + 1)
                     ELSE x,
                     ptr, info, mergedPath, i + 1)

\* fixRenameCycles, from the k-th renamed original on, in the order the
\* range over the map renamedOriginals takes them.
RECURSIVE fixRenameCycles(_, _, _)
fixRenameCycles(x, order, k) ==
    IF x.err # "nil" \/ k > Len(order) THEN x
    ELSE LET ptr == order[k]
             info == rcRenamed[ptr]
         IN  IF info.originalNewParent \notin DOMAIN x.chains
             THEN [x EXCEPT !.err = "NoChainFoundError"]
             ELSE IF x.chains[info.originalNewParent].mostRecent
                         \notin DOMAIN rcMergedPaths
             THEN [x EXCEPT !.err = "couldn't find merged path"]
             ELSE fixRenameCycles(
                      FixPath(x, ptr, info,
                              rcMergedPaths[x.chains[info.originalNewParent].mostRecent],
                              1),
                      order, k + 1)

\* The chains of an unmerged branch that renamed a into b, b into a, or
\* both, under the names they had, and the merged paths of the new parents.
InitRC ==
    /\ NewConflictResolver
    /\ fdBlocks = (RootPtr :> EmptyBlock)
    /\ fdDirty = {}
    /\ fdNextID = RootPtr + 1
    /\ fdDe = [Size |-> 0, EncodedSize |-> 0]
    /\ fdMaxSize = 1
    /\ fdMaxPtrs = 2
    /\ fdWrites = 0
    /\ fdOps = 0
    /\ fdW = NoCall
    /\ fdR = NoCall
    /\ LET name(p) == IF p = 2 THEN "a" ELSE "b"
           opsOver(S) == UNION {[1..n -> S] : n \in 0..MaxChainOps}
           createOps == {[kind |-> "create", renamed |-> r, name |-> nm,
                          Type |-> "Dir", crSymPath |-> "", dropThis |-> FALSE] :
                             <<r, nm>> \in {<<TRUE, "a">>, <<TRUE, "b">>,
                                            <<FALSE, "a">>}}
           rmOps == {[kind |-> "rm", renamed |-> FALSE, name |-> nm,
                      Type |-> "", crSymPath |-> "", dropThis |-> FALSE] :
                         nm \in {"a", "b"}}
           chainsOf(D) == {c \in [D -> [mostRecent : {0},
                                        ops : opsOver(createOps \cup rmOps)]] :
                              \A d \in D :
                                 /\ d = 1 => \A k \in 1..Len(c[d].ops) :
                                                ~c[d].ops[k].renamed
                                 /\ d # 1 => \A k \in 1..Len(c[d].ops) :
                                                c[d].ops[k].kind = "create"}
           pathsTo(d) == {<<21, d + 20>>, <<21, 25 - d, d>>, <<21, 5 - d, d + 20>>,
                          <<21, 25 - d, 24, d>>}
       IN  /\ rcRenamed \in
                {[p \in R |-> [originalOldParent |-> 1, oldName |-> name(p),
                               originalNewParent |-> 5 - p, newName |-> name(p)]] :
                    R \in SUBSET {2, 3} \ {{}}}
           /\ rcChains \in
                UNION {{[d \in D |-> [c[d] EXCEPT !.mostRecent = d + 10]] :
                           c \in chainsOf(D)} : D \in SUBSET {1, 2, 3}}
           /\ rcMergedPaths \in
                UNION {{f \in [D -> pathsTo(2) \cup pathsTo(3)] :
                           \A d \in D : f[d] \in pathsTo(d - 10)} :
                       D \in SUBSET {12, 13}}
    /\ rcCall = NoCall
    /\ rcMerged = <<>>
    /\ rcPaths = {}

\* A call of fixRenameCycles on the chains.
FixRenameCycles ==
    /\ rcCall = NoCall
    /\ rcRenamed # <<>>
    /\ \E order \in {o \in [1..Cardinality(DOMAIN rcRenamed) -> DOMAIN rcRenamed] :
                        \A j, k \in DOMAIN o : o[j] = o[k] => j = k} :
        \E r \in {fixRenameCycles([chains |-> rcChains, err |-> "nil"], order, 1)} :
            /\ rcChains' = r.chains
            /\ rcCall' = [op |-> "fixRenameCycles", pre |-> rcChains,
                          order |-> order, err |-> r.err]
    /\ UNCHANGED <<crVars, fdVars, rcRenamed, rcMergedPaths, rcMerged, rcPaths>>

SpecRC == InitRC /\ [][FixRenameCycles]_vars

(***************************************************************************)
(* resolveMergedPathTail and resolveMergedPaths                            *)
(*                                                                         *)
(* A path is a sequence of nodes [BlockPointer, Name] from the root down;  *)
(* a recreate op is a record [name, Unref] of a createOp's NewName and     *)
(* Dir.Unref.  The zero BlockPointer is 0.                                 *)
(***************************************************************************)
\* The loop `for mergedChains.isDeleted(currOriginal)`; r holds currPath,
\* currOriginal, mergedPath and recreateOps (both still backwards).
RECURSIVE FindMergedParent(_)
FindMergedParent(r) ==
    IF r.err # "nil" \/ r.currOriginal \notin rcMerged.deleted THEN r
    ELSE IF Len(r.currPath) < 2
    THEN [r EXCEPT !.err = "Couldn't find valid merged parent path"]
    ELSE
        LET name == r.currPath[Len(r.currPath)].Name
            parentPath == SubSeq(r.currPath, 1, Len(r.currPath) - 1)
            origs == {n \in DOMAIN rcChains :
                         rcChains[n].mostRecent =
                             parentPath[Len(parentPath)].BlockPointer}
        IN  IF origs = {} THEN [r EXCEPT !.err = "NoChainFoundError"]
            ELSE FindMergedParent(
                     [currPath |-> parentPath,
                      currOriginal |-> CHOOSE n \in origs : TRUE,
                      mergedPath |-> Append(r.mergedPath,
                                            [BlockPointer |-> r.currOriginal,
                                             Name |-> name]),
                      recreateOps |-> Append(r.recreateOps,
                                             [name |-> name,
                                              Unref |-> CHOOSE n \in origs : TRUE]),
                      err |-> "nil"])

\* resolveMergedPathTail.  Of the loop `for i := len(currPath.path) - 1`,
\* stop is the first i from the end where the loop returns or breaks: the
\* node has no unmerged chain (0), the merged branch changed it, or renamed
\* it.
resolveMergedPathTail(unmergedPath) ==
    LET orig(ptr) == IF \E n \in DOMAIN rcChains : rcChains[n].mostRecent = ptr
                     THEN CHOOSE n \in DOMAIN rcChains : rcChains[n].mostRecent = ptr
                     ELSE 0
        failed(e) == [mergedPath |-> <<>>, mostRecent |-> 0,
                      recreateOps |-> <<>>, err |-> e]
        tail(r) ==
            LET n == Len(r.recreateOps)
                recreateOps == IF n = 0 THEN <<>>
                               ELSE [r.recreateOps EXCEPT ![n].Unref =
                                        IF @ \in DOMAIN rcMerged.mostRecent
                                        THEN rcMerged.mostRecent[@] ELSE @]
                o(i) == orig(r.currPath[i].BlockPointer)
                stops == {i \in 1..Len(r.currPath) :
                             \/ o(i) = 0
                             \/ o(i) \in DOMAIN rcMerged.mostRecent
                             \/ o(i) \in DOMAIN rcMerged.renamed}
                stop == IF stops = {} THEN 0
                        ELSE CHOOSE i \in stops : \A j \in stops : j <= i
                renamed == /\ stop > 0
                           /\ o(stop) # 0
                           /\ o(stop) \notin DOMAIN rcMerged.mostRecent
                passed == [k \in 1..(Len(r.currPath) - stop) |->
                              [BlockPointer |-> o(Len(r.currPath) + 1 - k),
                               Name |-> r.currPath[Len(r.currPath) + 1 - k].Name]]
                backwards == r.mergedPath \o passed \o
                                IF renamed
                                THEN << [BlockPointer |-> o(stop),
                                         Name |-> rcMerged.renamed[o(stop)].name] >>
                                ELSE <<>>
                mostRecent == IF stop = 0 THEN 0
                              ELSE IF renamed
                              THEN rcMerged.mostRecent[rcMerged.renamed[o(stop)].parent]
                              ELSE rcMerged.mostRecent[o(stop)]
            IN  IF r.err # "nil" THEN failed(r.err)
                ELSE IF stop > 0 /\ o(stop) = 0 THEN failed("NoChainFoundError")
                ELSE IF renamed /\ rcMerged.renamed[o(stop)].parent
                                      \notin DOMAIN rcMerged.mostRecent
                THEN failed("NoChainFoundError")
                ELSE [mergedPath |-> [k \in 1..Len(backwards) |->
                                         backwards[Len(backwards) + 1 - k]],
                      mostRecent |-> mostRecent,
                      recreateOps |-> [k \in 1..n |-> recreateOps[n + 1 - k]],
                      err |-> "nil"]
    IN  IF orig(unmergedPath[Len(unmergedPath)].BlockPointer) = 0
        THEN failed("NoChainFoundError")
        ELSE tail(FindMergedParent(
                      [currPath |-> unmergedPath,
                       currOriginal |-> orig(unmergedPath[Len(unmergedPath)].BlockPointer),
                       mergedPath |-> <<>>, recreateOps |-> <<>>, err |-> "nil"]))

\* SaveRecreateOps without the createMapKey check: every recreate op of
\* every path is kept.
RECURSIVE SaveRecreateOpsAll(_, _, _)
SaveRecreateOpsAll(x, unmergedPaths, k) ==
    IF x.err # "nil" \/ k > Len(unmergedPaths) THEN x
    ELSE
        LET tail == unmergedPaths[k][Len(unmergedPaths[k])].BlockPointer
            saved(t) ==
                IF t.err # "nil" THEN [x EXCEPT !.err = t.err]
                ELSE [mergedPaths |-> (tail :> t.mergedPath) @@ x.mergedPaths,
                      recreateOps |-> x.recreateOps \o t.recreateOps,
                      chainsToSearchFor |->
                          (t.mostRecent :>
                              (IF t.mostRecent \in DOMAIN x.chainsToSearchFor
                               THEN x.chainsToSearchFor[t.mostRecent]
                               ELSE <<>>) \o <<tail>>)
                          @@ x.chainsToSearchFor,
                      err |-> "nil"]
        IN  SaveRecreateOpsAll(saved(resolveMergedPathTail(unmergedPaths[k])),
                               unmergedPaths, k + 1)

\* The loop `for _, p := range unmergedPaths`, from the k-th path on; x holds
\* mergedPaths, recreateOps and chainsToSearchFor.  createsSeen holds the
\* keys of the ops that recreateOps holds.
RECURSIVE SaveRecreateOps(_, _, _)
SaveRecreateOps(x, unmergedPaths, k) ==
    IF x.err # "nil" \/ k > Len(unmergedPaths) THEN x
    ELSE
        LET tail == unmergedPaths[k][Len(unmergedPaths[k])].BlockPointer
            saved(t) ==
                LET unseen == {j \in 1..Len(t.recreateOps) :
                                  /\ \A i \in 1..Len(x.recreateOps) :
                                        x.recreateOps[i] # t.recreateOps[j]
                                  /\ \A i \in 1..(j - 1) :
                                        t.recreateOps[i] # t.recreateOps[j]}
                IN  IF t.err # "nil" THEN [x EXCEPT !.err = t.err]
                    ELSE [mergedPaths |-> (tail :> t.mergedPath) @@ x.mergedPaths,
                          recreateOps |-> x.recreateOps \o
                              [i \in 1..Cardinality(unseen) |->
                                  t.recreateOps[CHOOSE j \in unseen :
                                      Cardinality({h \in unseen : h < j}) = i - 1]],
                          chainsToSearchFor |->
                              (t.mostRecent :>
                                  (IF t.mostRecent \in DOMAIN x.chainsToSearchFor
                                   THEN x.chainsToSearchFor[t.mostRecent]
                                   ELSE <<>>) \o <<tail>>)
                              @@ x.chainsToSearchFor,
                          err |-> "nil"]
        IN  SaveRecreateOps(saved(resolveMergedPathTail(unmergedPaths[k])),
                            unmergedPaths, k + 1)

\* resolveMergedPaths: searchForNodes finds the merged path of a pointer
\* (rcMerged.found) or no node, and every merged path is completed with the
\* path found for its mostRecent.
resolveMergedPaths(unmergedPaths) ==
    LET searched(x) ==
            IF Len(unmergedPaths) = 0 \/ x.err # "nil"
            THEN [mergedPaths |-> <<>>, recreateOps |-> <<>>, err |-> x.err]
            ELSE IF \E ptr \in DOMAIN x.chainsToSearchFor :
                       ptr \notin DOMAIN rcMerged.found
            THEN [mergedPaths |-> <<>>, recreateOps |-> <<>>,
                  err |-> "NodeNotFoundError"]
            ELSE [mergedPaths |->
                      [u \in DOMAIN x.mergedPaths |->
                          rcMerged.found[
                              CHOOSE ptr \in DOMAIN x.chainsToSearchFor :
                                 \E i \in 1..Len(x.chainsToSearchFor[ptr]) :
                                    x.chainsToSearchFor[ptr][i] = u]
                          \o x.mergedPaths[u]],
                  recreateOps |-> x.recreateOps,
                  err |-> "nil"]
    IN  searched(SaveRecreateOps([mergedPaths |-> <<>>, recreateOps |-> <<>>,
                                  chainsToSearchFor |-> <<>>, err |-> "nil"],
                                 unmergedPaths, 1))

\* The root (1) and the directories a (2), b (3) and c (4), each below the
\* root or a directory of a smaller number.  The unmerged branch changed
\* some of them and has a path to each of some; the merged branch deleted
\* some, changed some and renamed at most one of b and c to z below the
\* root.
InitMP ==
    /\ NewConflictResolver
    /\ fdBlocks = (RootPtr :> EmptyBlock)
    /\ fdDirty = {}
    /\ fdNextID = RootPtr + 1
    /\ fdDe = [Size |-> 0, EncodedSize |-> 0]
    /\ fdMaxSize = 1
    /\ fdMaxPtrs = 2
    /\ fdWrites = 0
    /\ fdOps = 0
    /\ fdW = NoCall
    /\ fdR = NoCall
    /\ rcRenamed = <<>>
    /\ rcMergedPaths = <<>>
    /\ rcCall = NoCall
    /\ \E par \in {f \in [2..MaxDirs -> 1..MaxDirs] : \A n \in 2..MaxDirs :
                      /\ f[n] < n
                      /\ f[n] >= n - 2} :
        \E U \in SUBSET (2..MaxDirs), D \in SUBSET (2..MaxDirs),
           M \in SUBSET (1..MaxDirs), R \in SUBSET (3..MaxDirs) :
           LET name(n) == IF n = 1 THEN "r" ELSE IF n = 2 THEN "a"
                          ELSE IF n = 3 THEN "b" ELSE IF n = 4 THEN "c" ELSE "d"
               unmergedPath[n \in 1..MaxDirs] ==
                   (IF n = 1 THEN <<>> ELSE unmergedPath[par[n]])
                      \o << [BlockPointer |-> IF n \in U \cup {1} THEN n + 10 ELSE n,
                             Name |-> name(n)] >>
               mpar(n) == IF n \in R THEN 1 ELSE par[n]
               gone[n \in 1..MaxDirs] ==
                   IF n = 1 THEN FALSE ELSE n \in D \/ gone[mpar(n)]
               mergedPath[n \in 1..MaxDirs] ==
                   (IF n = 1 THEN <<>> ELSE mergedPath[mpar(n)])
                      \o << [BlockPointer |-> IF n \in M THEN n + 20 ELSE n,
                             Name |-> IF n \in R THEN "z" ELSE name(n)] >>
           IN  /\ Cardinality(R) <= 1
               /\ R \cap D = {}
               /\ rcChains = [n \in U \cup {1} |-> [mostRecent |-> n + 10, ops |-> <<>>]]
               /\ rcPaths \in {P \in SUBSET {unmergedPath[n] : n \in 2..MaxDirs} :
                                  P # {}}
               /\ rcMerged = [deleted |-> D,
                              mostRecent |-> [n \in M |-> n + 20],
                              renamed |-> [n \in R |-> [parent |-> 1, name |-> "z"]],
                              found |-> [q \in {n + 20 : n \in {m \in M : ~gone[m]}} |->
                                            mergedPath[q - 20]]]

\* A call of resolveMergedPaths with the unmerged paths in some order.
ResolveMergedPaths ==
    /\ rcCall = NoCall
    /\ rcPaths # {}
    /\ \E unmergedPaths \in {o \in [1..Cardinality(rcPaths) -> rcPaths] :
                                \A j, k \in DOMAIN o : o[j] = o[k] => j = k} :
        \E r \in {resolveMergedPaths(unmergedPaths)} :
            /\ rcMergedPaths' = r.mergedPaths
            /\ rcCall' = [op |-> "resolveMergedPaths",
                          unmergedPaths |-> unmergedPaths,
                          recreateOps |-> r.recreateOps, err |-> r.err]
    /\ UNCHANGED <<crVars, fdVars, rcChains, rcRenamed, rcMerged, rcPaths>>

SpecMP == InitMP /\ [][ResolveMergedPaths]_vars


(***************************************************************************)
(* addRecreateOpsToUnmergedChains                                          *)
(*                                                                         *)
(* An op of a chain is a record [name, Unref, finalPath]; finalPath is <<>>*)
(* until setFinalPath.                                                     *)
(***************************************************************************)
\* The loop `for _, rop := range recreateOps`, from the k-th op on; x holds
\* the unmerged chains, mergedPaths and the error.  keys is the lookup
\* table the function builds first.
RECURSIVE InstallRecreateOps(_, _, _, _)
InstallRecreateOps(x, recreateOps, k, keys) ==
    IF x.err # "nil" \/ k > Len(recreateOps) THEN x
    ELSE
        LET rop == recreateOps[k]
            origTargetPtr ==
                IF \E n \in DOMAIN rcMerged.mostRecent :
                      rcMerged.mostRecent[n] = rop.Unref
                THEN CHOOSE n \in DOMAIN rcMerged.mostRecent :
                        rcMerged.mostRecent[n] = rop.Unref
                ELSE rop.Unref
            mostRecent == IF origTargetPtr \in DOMAIN x.chains
                          THEN x.chains[origTargetPtr].mostRecent
                          ELSE origTargetPtr
            subpath(currPath) ==
                LET at == {i \in 1..Len(currPath) :
                              currPath[i].BlockPointer = rop.Unref}
                IN  IF currPath[Len(currPath)].BlockPointer = rop.Unref
                    THEN currPath
                    ELSE IF \E i \in at : i > 1
                    THEN SubSeq(currPath, 1,
                                CHOOSE i \in at : \A j \in at : j <= i)
                    ELSE SubSeq(currPath, 1, 1)
            mergedPath == IF mostRecent \in DOMAIN x.mergedPaths
                          THEN x.mergedPaths[mostRecent]
                          ELSE IF rop.Unref \in DOMAIN keys
                          THEN subpath(x.mergedPaths[keys[rop.Unref]])
                          ELSE <<>>
            installed(op) ==
                IF origTargetPtr \in DOMAIN x.chains
                THEN [x.chains EXCEPT ![origTargetPtr].ops = <<op>> \o @]
                ELSE (origTargetPtr :> [mostRecent |-> origTargetPtr,
                                        ops |-> <<op>>]) @@ x.chains
        IN  IF mostRecent \notin DOMAIN x.mergedPaths
               /\ rop.Unref \notin DOMAIN keys
            THEN [x EXCEPT !.chains = installed([rop EXCEPT !.finalPath = <<>>]),
                           !.err = "Couldn't find a merged path"]
            ELSE InstallRecreateOps(
                     [chains |-> installed([rop EXCEPT !.finalPath = mergedPath]),
                      mergedPaths |-> (mostRecent :> mergedPath) @@ x.mergedPaths,
                      err |-> "nil"],
                     recreateOps, k + 1, keys)

\* An installation that completes mergedPaths and leaves the chains as they
\* were.
addRecreateOpsToNoChain(recreateOps, chains, mergedPaths, keys, kbpkiErr) ==
    IF Len(recreateOps) = 0 \/ kbpkiErr # "nil"
    THEN [chains |-> chains, mergedPaths |-> mergedPaths, err |-> kbpkiErr]
    ELSE [InstallRecreateOps(
              [chains |-> chains, mergedPaths |-> mergedPaths, err |-> "nil"],
              [k \in 1..Len(recreateOps) |->
                  [name |-> recreateOps[k].name, Unref |-> recreateOps[k].Unref,
                   finalPath |-> <<>>]],
              1, keys)
          EXCEPT !.chains = chains]

\* addRecreateOpsToUnmergedChains(ctx, recreateOps, unmergedChains,
\* mergedChains, mergedPaths); kbpkiErr is the error of GetCurrentUID or of
\* GetNormalizedUsername.
addRecreateOpsToUnmergedChains(recreateOps, chains, mergedPaths, keys, kbpkiErr) ==
    IF Len(recreateOps) = 0
    THEN [chains |-> chains, mergedPaths |-> mergedPaths, err |-> "nil"]
    ELSE IF kbpkiErr # "nil"
    THEN [chains |-> chains, mergedPaths |-> mergedPaths, err |-> kbpkiErr]
    ELSE InstallRecreateOps(
             [chains |-> chains, mergedPaths |-> mergedPaths, err |-> "nil"],
             [k \in 1..Len(recreateOps) |->
                 [name |-> recreateOps[k].name, Unref |-> recreateOps[k].Unref,
                  finalPath |-> <<>>]],
             1, keys)

\* The root (1) and the directories a (2) in the root, b (3) in a and c (4)
\* in b.  The unmerged branch changed some of them, has a path to each of
\* some, and its chains hold an op each or none; the merged branch deleted
\* some, changed some and renamed at most one of b and c to z below the
\* root.
InitAR ==
    /\ NewConflictResolver
    /\ fdBlocks = (RootPtr :> EmptyBlock)
    /\ fdDirty = {}
    /\ fdNextID = RootPtr + 1
    /\ fdDe = [Size |-> 0, EncodedSize |-> 0]
    /\ fdMaxSize = 1
    /\ fdMaxPtrs = 2
    /\ fdWrites = 0
    /\ fdOps = 0
    /\ fdW = NoCall
    /\ fdR = NoCall
    /\ rcRenamed = <<>>
    /\ rcMergedPaths = <<>>
    /\ rcCall = NoCall
    /\ \E U \in SUBSET (2..MaxDirs), D \in SUBSET (2..MaxDirs),
          M \in SUBSET (1..MaxDirs), R \in SUBSET (3..MaxDirs),
          existing \in {<<>>, << [name |-> "e", Unref |-> 0, finalPath |-> <<>>] >>} :
           LET name(n) == IF n = 1 THEN "r" ELSE IF n = 2 THEN "a"
                          ELSE IF n = 3 THEN "b" ELSE IF n = 4 THEN "c" ELSE "d"
               unmergedPath(n) ==
                   [i \in 1..n |-> [BlockPointer |-> IF i \in U \cup {1}
                                                     THEN i + 10 ELSE i,
                                    Name |-> name(i)]]
               first(n) == IF \E r \in R : r <= n
                           THEN CHOOSE r \in R : r <= n ELSE 2
               mergedDirs(n) == <<1>> \o [i \in 1..(n + 1 - first(n)) |->
                                            first(n) + i - 1]
               mergedPath(n) ==
                   [i \in 1..Len(mergedDirs(n)) |->
                       [BlockPointer |-> IF mergedDirs(n)[i] \in M
                                         THEN mergedDirs(n)[i] + 20
                                         ELSE mergedDirs(n)[i],
                        Name |-> IF mergedDirs(n)[i] \in R THEN "z"
                                 ELSE name(mergedDirs(n)[i])]]
               gone(n) == \E i \in 1..Len(mergedDirs(n)) : mergedDirs(n)[i] \in D
           IN  /\ Cardinality(R) <= 1
               /\ R \cap D = {}
               /\ rcChains = [n \in U \cup {1} |->
                                 [mostRecent |-> n + 10, ops |-> existing]]
               /\ rcPaths \in {P \in SUBSET {unmergedPath(n) : n \in 2..MaxDirs} :
                                  P # {} /\ Cardinality(P) <= 2}
               /\ rcMerged = [deleted |-> D,
                              mostRecent |-> [n \in M |-> n + 20],
                              renamed |-> [n \in R |-> [parent |-> 1, name |-> "z"]],
                              found |-> [q \in {n + 20 : n \in {m \in M : ~gone(m)}} |->
                                            mergedPath(q - 20)]]

\* A call of addRecreateOpsToUnmergedChains with the recreate ops and the
\* merged paths resolveMergedPaths returned; the lookup table holds for each
\* node of a merged path the key of one of the paths it is on, whichever
\* the iteration over the map left.
AddRecreateOps ==
    /\ rcCall.op = "resolveMergedPaths"
    /\ rcCall.err = "nil"
    /\ LET nodes == UNION {{rcMergedPaths[u][i].BlockPointer :
                               i \in 1..Len(rcMergedPaths[u])} :
                           u \in DOMAIN rcMergedPaths}
       IN  \E keys \in {f \in [nodes -> DOMAIN rcMergedPaths] :
                           \A n \in nodes :
                              \E i \in 1..Len(rcMergedPaths[f[n]]) :
                                 rcMergedPaths[f[n]][i].BlockPointer = n},
              kbpkiErr \in {"nil", "kbpki error"} :
              \E r \in {addRecreateOpsToUnmergedChains(
                            rcCall.recreateOps, rcChains, rcMergedPaths,
                            keys, kbpkiErr)} :
                 /\ rcChains' = r.chains
                 /\ rcMergedPaths' = r.mergedPaths
                 /\ rcCall' = [op |-> "addRecreateOpsToUnmergedChains",
                               pre |-> rcChains,
                               preMergedPaths |-> rcMergedPaths,
                               recreateOps |-> rcCall.recreateOps,
                               err |-> r.err]
    /\ UNCHANGED <<crVars, fdVars, rcRenamed, rcMerged, rcPaths>>

SpecAR == InitAR /\ [][ResolveMergedPaths \/ AddRecreateOps]_vars


(***************************************************************************)
(* The file as a tree: what the claims about the file engine speak of.     *)
(***************************************************************************)
RECURSIVE LeavesBelow(_, _, _, _)
RECURSIVE LeavesOfChildren(_, _, _, _)

\* The leaves below the children of an indirect block from child k on, in
\* the order of the pointers.
LeavesOfChildren(blocks, iptrs, k, path) ==
    IF k > Len(iptrs) THEN <<>>
    ELSE LeavesBelow(blocks, iptrs[k].BlockPointer, iptrs[k].Off, path)
             \o LeavesOfChildren(blocks, iptrs, k + 1, path)

\* The leaves below the block ptr, which its parent records at offset off:
\* each with its pointer, its offset, its Contents and the pointers of its
\* ancestors from the root down.
LeavesBelow(blocks, ptr, off, path) ==
    IF ~blocks[ptr].IsInd
    THEN << [ptr |-> ptr, off |-> off, Contents |-> blocks[ptr].Contents,
             path |-> path] >>
    ELSE LeavesOfChildren(blocks, blocks[ptr].IPtrs, 1, Append(path, ptr))

Leaves(blocks) == LeavesBelow(blocks, RootPtr, 0, <<>>)

\* The indirect blocks at and below the block ptr, which its parent records
\* at offset off: each with its pointer, that offset and its IPtrs.
RECURSIVE IndirectsBelow(_, _, _)
IndirectsBelow(blocks, ptr, off) ==
    IF ~blocks[ptr].IsInd THEN {}
    ELSE {[ptr |-> ptr, off |-> off, IPtrs |-> blocks[ptr].IPtrs]}
            \cup UNION {IndirectsBelow(blocks, blocks[ptr].IPtrs[k].BlockPointer,
                                       blocks[ptr].IPtrs[k].Off) :
                            k \in 1..Len(blocks[ptr].IPtrs)}

Indirects(blocks) == IndirectsBelow(blocks, RootPtr, 0)

\* The indirect pointers of the tree.
IPtrsOf(blocks) ==
    UNION {{b.IPtrs[k] : k \in 1..Len(b.IPtrs)} : b \in Indirects(blocks)}

\* pb.childIPtr().BlockInfo
BlockInfo(iptr) ==
    [BlockPointer |-> iptr.BlockPointer, EncodedSize |-> iptr.EncodedSize]

\* The end of the file's last leaf.
TreeEnd(blocks) ==
    LET ls == Leaves(blocks)
    IN  IF Len(ls) = 0 THEN 0
        ELSE ls[Len(ls)].off + Len(ls[Len(ls)].Contents)

\* The byte of the file at position i (from 0): the byte of the leaf that
\* holds the position, zero in a hole.
ByteAt(blocks, i) ==
    LET ls == Leaves(blocks)
        in == {k \in 1..Len(ls) :
                  ls[k].off <= i /\ i < ls[k].off + Len(ls[k].Contents)}
    IN  IF in = {} THEN 0
        ELSE LET k == CHOOSE k \in in : TRUE
             IN  ls[k].Contents[i - ls[k].off + 1]

\* The bytes of the range [s, e).
BytesIn(blocks, s, e) == [i \in 1..(e - s) |-> ByteAt(blocks, s + i - 1)]

(***************************************************************************)
(* C10  Read-after-write.                                                  *)
(***************************************************************************)
\* C10: on a file that was empty, after write(data, off) returned, a read of
\* len(data) bytes at off copies len(data) bytes and they are data, whatever
\* the splitter's capacity and MaxPtrsPerBlock.
C10_ReadAfterWrite ==
    (/\ fdWrites = 1
     /\ fdR.op = "read"
     /\ fdR.off = fdW.off
     /\ fdR.len = Len(fdW.data))
    => /\ fdW.err = "nil"
       /\ fdR.err = "nil"
       /\ fdR.n = Len(fdW.data)
       /\ fdR.dest = fdW.data

\* The data written spans several leaves below two levels of indirect
\* blocks, behind a hole, and was read back.
C10_Witness ==
    /\ fdWrites = 1
    /\ fdR.op = "read"
    /\ fdR.off = fdW.off
    /\ fdR.len = Len(fdW.data)
    /\ fdW.off > fdMaxSize
    /\ Len(fdW.data) > fdMaxSize
    /\ fdBlocks[RootPtr].IsInd
    /\ \E k \in 1..Len(fdBlocks[RootPtr].IPtrs) :
        fdBlocks[fdBlocks[RootPtr].IPtrs[k].BlockPointer].IsInd

(***************************************************************************)
(* C11  Holes read as zeros.                                               *)
(***************************************************************************)
\* C11: for any file tree and any range [s, e) with 0 <= s < e <= file
\* size, read returns exactly e - s bytes: zero at every position inside a
\* hole, the leaf's byte at every position inside a leaf.
C11_HolesReadAsZeros ==
    (/\ fdR.op = "read"
     /\ fdR.off + fdR.len <= fdDe.Size)
    => /\ fdR.err = "nil"
       /\ fdR.n = fdR.len
       /\ fdR.dest = BytesIn(fdBlocks, fdR.off, fdR.off + fdR.len)

(***************************************************************************)
(* C12  Write-at-hole fills only the hole range.                           *)
(***************************************************************************)
\* C12: on an empty file, truncateExtend(N) followed by write(b, k) with
\* k < N leaves the bytes of [0, k) and of [k+len(b), N) reading as zero and
\* the bytes of [k, k+len(b)) equal to b.
C12_WriteAtHole ==
    [][(/\ fdOps = 1
        /\ fdW.op = "truncateExtend"
        /\ fdOps' = 2
        /\ fdW'.op = "write"
        /\ fdW'.off < fdW.size)
       => LET st == WorkingState(fdBlocks', fdDirty', fdNextID')
              N == fdW.size
              k == fdW'.off
              b == fdW'.data
              before == read(st, k, 0)
              at == read(st, Len(b), k)
              after == read(st, N - (k + Len(b)), k + Len(b))
          IN  /\ fdW'.err = "nil"
              /\ before.err = "nil" /\ before.n = k /\ before.dest = Zeros(k)
              /\ at.err = "nil" /\ at.n = Len(b) /\ at.dest = b
              /\ k + Len(b) < N =>
                    /\ after.err = "nil"
                    /\ after.n = N - (k + Len(b))
                    /\ after.dest = Zeros(N - (k + Len(b)))
              /\ \A i \in 0..(N - 1) :
                    ByteAt(fdBlocks', i) =
                        IF i >= k /\ i < k + Len(b) THEN b[i - k + 1] ELSE 0]_vars

\* A write into the hole of a file that truncateExtend made of the empty
\* file needed a new block between the first leaf and the last one.
C12_Witness ==
    /\ fdOps = 2
    /\ fdW.op = "write"
    /\ fdW.err = "nil"
    /\ fdW.pre.de.Size > fdW.off + Len(fdW.data)
    /\ fdW.off > 0
    /\ Len(Leaves(fdW.pre.blocks)) = 2
    /\ \A i \in 1..2 : Leaves(fdW.pre.blocks)[i].Contents = <<>>
    /\ Len(Leaves(fdBlocks)) > 3

(***************************************************************************)
(* C13  Offset monotonicity.                                               *)
(***************************************************************************)
\* C13: after any sequence of write, truncateExtend, truncateShrink and
\* split, the child offsets of every indirect block are strictly increasing
\* and the first child's offset is the offset the block's parent records
\* for the block (0 for the root).
C13_OffsetMonotonicity ==
    \A b \in Indirects(fdBlocks) :
        /\ \A k \in 1..(Len(b.IPtrs) - 1) : b.IPtrs[k].Off < b.IPtrs[k + 1].Off
        /\ Len(b.IPtrs) > 0 => b.IPtrs[1].Off = b.off

(***************************************************************************)
(* C14  Dirty-ancestor closure.                                            *)
(***************************************************************************)
\* C14: after any single write, truncateExtend or truncateShrink that
\* returns without error, every ancestor of a leaf whose pointer is dirty is
\* dirty under its own pointer.
C14_DirtyAncestors ==
    (/\ fdW.op \in {"write", "truncateExtend", "truncateShrink"}
     /\ fdW.err = "nil")
    => \A l \in 1..Len(Leaves(fdBlocks)) :
          Leaves(fdBlocks)[l].ptr \in fdDirty
          => \A a \in 1..Len(Leaves(fdBlocks)[l].path) :
                Leaves(fdBlocks)[l].path[a] \in fdDirty

(***************************************************************************)
(* C15  Encoded-size zeroing.                                              *)
(***************************************************************************)
\* C15: after any write, every indirect pointer on the path from the root to
\* a leaf the write modified has encoded size 0, and the unrefs returned
\* hold the BlockInfo each of those pointers had before, when its encoded
\* size was not 0, once each, and nothing else.
C15_EncodedSizeZeroing ==
    (/\ fdW.op = "write"
     /\ fdW.err = "nil")
    => LET leaves == Leaves(fdBlocks)
           modified == {l \in 1..Len(leaves) :
                           \/ leaves[l].ptr \notin DOMAIN fdW.pre.blocks
                           \/ fdW.pre.blocks[leaves[l].ptr].Contents
                                  # leaves[l].Contents}
           onPath == UNION {{leaves[l].ptr}
                               \cup {leaves[l].path[a] : a \in 1..Len(leaves[l].path)} :
                            l \in modified}
           before == {BlockInfo(ip) : ip \in {i \in IPtrsOf(fdW.pre.blocks) :
                                                 /\ i.BlockPointer \in onPath
                                                 /\ i.EncodedSize # 0}}
       IN  /\ \A ip \in IPtrsOf(fdBlocks) :
                 ip.BlockPointer \in onPath => ip.EncodedSize = 0
           /\ {fdW.unrefs[k] : k \in 1..Len(fdW.unrefs)} = before
           /\ \A j, k \in 1..Len(fdW.unrefs) :
                 fdW.unrefs[j] = fdW.unrefs[k] => j = k


\* C16: after split completes without error on an indirect file, every dirty
\* leaf of the file is one that CheckSplit is content with: CheckSplit of
\* the leaf is 0, for the rightmost leaf and for the leaves that received
\* or gave up bytes as for the others.
C16_SplitConsistency ==
    (/\ fdW.op = "split"
     /\ fdW.err = "nil"
     /\ fdBlocks[RootPtr].IsInd)
    => \A l \in 1..Len(Leaves(fdBlocks)) :
          Leaves(fdBlocks)[l].ptr \in fdDirty
          => CheckSplit(Leaves(fdBlocks)[l].Contents) = 0



\* C17: after any sequence of write, truncateExtend, truncateShrink and
\* split, every indirect block of the file holds at most MaxPtrsPerBlock
\* pointers.
C17_FanOut ==
    \A p \in DOMAIN fdBlocks :
        fdBlocks[p].IsInd => Len(fdBlocks[p].IPtrs) <= fdMaxPtrs

\* A file of more than one level of indirection, after the last of its
\* operations, with a full indirect block below the root.
C17_Witness ==
    /\ fdOps = MaxOps
    /\ fdW.op \in {"write", "truncateExtend", "truncateShrink", "split"}
    /\ \E b \in Indirects(fdBlocks) :
          /\ b.ptr # RootPtr
          /\ Len(b.IPtrs) = fdMaxPtrs
          /\ fdMaxPtrs > 1



\* C18: after write(data, off) returns without error, the Size of the
\* directory entry it returns is the end of the rightmost leaf, its offset
\* plus the length of its Contents, wherever the write was and whether or
\* not it made the root indirect.
C18_FileLength ==
    (/\ fdW.op = "write"
     /\ fdW.err = "nil")
    => fdW.newDe.Size = TreeEnd(fdBlocks)



\* C19 as stated: after truncateShrink(size) on an indirect file with leaves
\* to the right of the leaf that contains size, the BlockInfo of every
\* dropped leaf (every leaf whose offset is above size) is in the returned
\* unrefs, the leaf that contains size holds its first size - startOff
\* bytes, and the new directory entry has Size == size.
C19_ShrinkDropsSubtree ==
    (/\ fdW.op = "truncateShrink"
     /\ fdW.err = "nil"
     /\ fdW.pre.blocks[RootPtr].IsInd
     /\ \E l \in 1..Len(Leaves(fdW.pre.blocks)) :
           Leaves(fdW.pre.blocks)[l].off > fdW.size)
    => \E g \in {getter(WorkingState(fdW.pre.blocks, fdW.pre.dirty, fdNextID),
                        RootPtr, "blockWrite")} :
         \E loc \in {getFileBlockAtOffset(g.st, g.block, fdW.size, "blockWrite")} :
            /\ \A l \in 1..Len(Leaves(fdW.pre.blocks)) :
                  Leaves(fdW.pre.blocks)[l].off > fdW.size
                  => \A ip \in IPtrsOf(fdW.pre.blocks) :
                        (/\ ip.BlockPointer = Leaves(fdW.pre.blocks)[l].ptr
                         /\ TRUE)
                        => \E k \in 1..Len(fdW.unrefs) :
                              fdW.unrefs[k] = BlockInfo(ip)
            /\ fdBlocks[loc.ptr].Contents =
                  SubSeq(fdW.pre.blocks[loc.ptr].Contents, 1,
                         fdW.size - loc.startOff)
            /\ fdW.newDe.Size = fdW.size

\* C19, amended: after truncateShrink(size) on an indirect file with leaves
\* to the right of the leaf that contains size, the BlockInfo of every
\* dropped leaf whose pointer has a non-zero encoded size is in the
\* returned unrefs, the leaf that contains size holds its first
\* size - startOff bytes, and the new directory entry has Size == size.
C19_ShrinkDropsStoredSubtree ==
    (/\ fdW.op = "truncateShrink"
     /\ fdW.err = "nil"
     /\ fdW.pre.blocks[RootPtr].IsInd
     /\ \E l \in 1..Len(Leaves(fdW.pre.blocks)) :
           Leaves(fdW.pre.blocks)[l].off > fdW.size)
    => \E g \in {getter(WorkingState(fdW.pre.blocks, fdW.pre.dirty, fdNextID),
                        RootPtr, "blockWrite")} :
         \E loc \in {getFileBlockAtOffset(g.st, g.block, fdW.size, "blockWrite")} :
            /\ \A l \in 1..Len(Leaves(fdW.pre.blocks)) :
                  Leaves(fdW.pre.blocks)[l].off > fdW.size
                  => \A ip \in IPtrsOf(fdW.pre.blocks) :
                        (/\ ip.BlockPointer = Leaves(fdW.pre.blocks)[l].ptr
                         /\ ip.EncodedSize # 0)
                        => \E k \in 1..Len(fdW.unrefs) :
                              fdW.unrefs[k] = BlockInfo(ip)
            /\ fdBlocks[loc.ptr].Contents =
                  SubSeq(fdW.pre.blocks[loc.ptr].Contents, 1,
                         fdW.size - loc.startOff)
            /\ fdW.newDe.Size = fdW.size

\* A truncateShrink that dropped a leaf whose pointer had a non-zero encoded
\* size and cut bytes off the leaf that contains size.
C19_Witness ==
    /\ fdW.op = "truncateShrink"
    /\ fdW.err = "nil"
    /\ fdW.pre.blocks[RootPtr].IsInd
    /\ Len(fdW.unrefs) > 0
    /\ \E l \in 1..Len(Leaves(fdW.pre.blocks)) :
          /\ Leaves(fdW.pre.blocks)[l].off > fdW.size
          /\ \E ip \in IPtrsOf(fdW.pre.blocks) :
                /\ ip.BlockPointer = Leaves(fdW.pre.blocks)[l].ptr
                /\ ip.EncodedSize # 0
                /\ \E k \in 1..Len(fdW.unrefs) : fdW.unrefs[k] = BlockInfo(ip)
    /\ \E l \in 1..Len(Leaves(fdBlocks)) :
          /\ Leaves(fdBlocks)[l].ptr \in DOMAIN fdW.pre.blocks
          /\ Len(Leaves(fdBlocks)[l].Contents) > 0
          /\ Len(Leaves(fdBlocks)[l].Contents)
                < Len(fdW.pre.blocks[Leaves(fdBlocks)[l].ptr].Contents)



(***************************************************************************)
(* C20  Rename-cycle safety.                                               *)
(***************************************************************************)
\* C20: when the unmerged branch renamed a directory into a new parent whose
\* merged path passes through the renamed directory (unmerged `mv a/ b/`,
\* merged `mv b/ a/`), then after fixRenameCycles returned without error the
\* createOp of the rename in the new parent's chain has Type Sym and a
\* crSymPath of "./" and one "../" per level of the merged path from the
\* renamed directory to the path's end ("./../../" for a and b), and a rmOp
\* of the rename's old name in the old parent's chain has dropThis.
C20_RenameCycleSafety ==
    (/\ rcCall.op = "fixRenameCycles"
     /\ rcCall.err = "nil")
    => \A ptr \in DOMAIN rcRenamed :
          \A i \in 1..Len(rcMergedPaths[rcChains[rcRenamed[ptr].originalNewParent].mostRecent]) :
             LET info == rcRenamed[ptr]
                 mergedPath == rcMergedPaths[rcChains[info.originalNewParent].mostRecent]
                 levels == Len(mergedPath) - i + 1
                 before == rcCall.pre[info.originalNewParent].ops
                 after == rcChains[info.originalNewParent].ops
                 oldBefore == rcCall.pre[info.originalOldParent].ops
                 oldAfter == rcChains[info.originalOldParent].ops
             IN  (IF mergedPath[i] > 20 THEN mergedPath[i] - 20 ELSE mergedPath[i]) = ptr
                 => /\ \A k \in 1..Len(before) :
                          (/\ before[k].kind = "create"
                           /\ before[k].renamed
                           /\ before[k].name = info.newName)
                          => /\ after[k].Type = "Sym"
                             /\ after[k].crSymPath =
                                   IF levels = 1 THEN "./../"
                                   ELSE IF levels = 2 THEN "./../../"
                                   ELSE "./../../../"
                    /\ (\E k \in 1..Len(oldBefore) :
                           /\ oldBefore[k].kind = "rm"
                           /\ oldBefore[k].name = info.oldName)
                       => \E k \in 1..Len(oldAfter) :
                             /\ oldAfter[k].kind = "rm"
                             /\ oldAfter[k].name = info.oldName
                             /\ oldAfter[k].dropThis

\* The chains of `mv a/ b/`, a rmOp of a in the root's chain and a renamed
\* createOp of a in b's, with the merged path root/a/b of `mv b/ a/`, after
\* fixRenameCycles: the createOp is a symlink to "./../../" and the rmOp is
\* dropped.
C20_Witness ==
    /\ rcCall.op = "fixRenameCycles"
    /\ rcCall.err = "nil"
    /\ DOMAIN rcRenamed = {2}
    /\ rcRenamed[2].originalNewParent = 3
    /\ 13 \in DOMAIN rcMergedPaths
    /\ rcMergedPaths[13] = <<21, 22, 3>>
    /\ Len(rcCall.pre[3].ops) = 1
    /\ rcCall.pre[3].ops[1].kind = "create"
    /\ rcCall.pre[3].ops[1].Type = "Dir"
    /\ rcChains[3].ops[1].Type = "Sym"
    /\ rcChains[3].ops[1].crSymPath = "./../../"
    /\ Len(rcChains[1].ops) = 1
    /\ rcChains[1].ops[1].kind = "rm"
    /\ rcChains[1].ops[1].name = "a"
    /\ rcChains[1].ops[1].dropThis
    /\ ~rcCall.pre[1].ops[1].dropThis



(***************************************************************************)
(* C21  Recreate dedup.                                                    *)
(***************************************************************************)
\* C21 as stated: when two or more distinct unmerged paths pass through a
\* directory that the merged branch deleted, resolveMergedPaths returns
\* exactly one recreate op for that directory (its name under its parent,
\* by the parent's original or most recent merged pointer), whatever the
\* order of the paths.
C21_RecreateDedup ==
    (/\ rcCall.op = "resolveMergedPaths"
     /\ rcCall.err = "nil")
    => \A d \in rcMerged.deleted :
          LET through == {p \in rcPaths :
                             \E i \in 1..Len(p) :
                                /\ p[i].BlockPointer \in {d, d + 10}}
          IN  Cardinality(through) >= 2
              => \E k \in 1..Len(rcCall.recreateOps) :
                    /\ \A p \in through : \E i \in 2..Len(p) :
                          /\ p[i].BlockPointer \in {d, d + 10}
                          /\ rcCall.recreateOps[k].name = p[i].Name
                          /\ rcCall.recreateOps[k].Unref
                                \in {p[i - 1].BlockPointer - 10,
                                     p[i - 1].BlockPointer + 10}
                    /\ \A j \in 1..Len(rcCall.recreateOps) :
                          (/\ rcCall.recreateOps[j].name = rcCall.recreateOps[k].name
                           /\ rcCall.recreateOps[j].Unref
                                 \in {rcCall.recreateOps[k].Unref,
                                      rcCall.recreateOps[k].Unref - 20,
                                      rcCall.recreateOps[k].Unref + 20})
                          => j = k

\* C21, amended: when two or more distinct unmerged paths pass through a
\* directory that the merged branch deleted together with every node of
\* those paths below it, resolveMergedPaths returns exactly one recreate op
\* for that directory, whatever the order of the paths.
C21_RecreateDedupOfDeletedTails ==
    (/\ rcCall.op = "resolveMergedPaths"
     /\ rcCall.err = "nil")
    => \A d \in rcMerged.deleted :
          LET through == {p \in rcPaths :
                             \E i \in 1..Len(p) :
                                /\ p[i].BlockPointer \in {d, d + 10}
                                /\ \A j \in i..Len(p) :
                                      \E n \in rcMerged.deleted :
                                         p[j].BlockPointer \in {n, n + 10}}
          IN  Cardinality(through) >= 2
              => \E k \in 1..Len(rcCall.recreateOps) :
                    /\ \A p \in through : \E i \in 2..Len(p) :
                          /\ p[i].BlockPointer \in {d, d + 10}
                          /\ rcCall.recreateOps[k].name = p[i].Name
                          /\ rcCall.recreateOps[k].Unref
                                \in {p[i - 1].BlockPointer - 10,
                                     p[i - 1].BlockPointer + 10}
                    /\ \A j \in 1..Len(rcCall.recreateOps) :
                          (/\ rcCall.recreateOps[j].name = rcCall.recreateOps[k].name
                           /\ rcCall.recreateOps[j].Unref
                                 \in {rcCall.recreateOps[k].Unref,
                                      rcCall.recreateOps[k].Unref - 20,
                                      rcCall.recreateOps[k].Unref + 20})
                          => j = k

\* Two unmerged paths through a directory that the merged branch deleted
\* with what is below it, in a call that returned one recreate op for each
\* deleted node of the two paths.
C21_Witness ==
    /\ rcCall.op = "resolveMergedPaths"
    /\ rcCall.err = "nil"
    /\ Cardinality(rcPaths) = 2
    /\ \A p \in rcPaths : /\ Len(p) = 3
                          /\ p[2].BlockPointer = 12
                          /\ p[3].BlockPointer > 10
    /\ rcMerged.deleted = {2, 3, 4}
    /\ Len(rcCall.recreateOps) = 3
    /\ Cardinality({k \in 1..3 : rcCall.recreateOps[k].name = "a"}) = 1



(***************************************************************************)
(* C22  Dirty-leaf iteration is complete.                                  *)
(***************************************************************************)
\* C22: on an indirect file whose offsets are ordered and whose dirty leaves
\* have dirty ancestors, getNextDirtyFileBlockAtOffset called from off 0 and
\* then from each nextBlockStartOff it returns, until it returns no block or
\* -1, fails never and returns every dirty leaf once, in the order of the
\* offsets, whatever the depth of the tree.
C22_DirtyLeafIteration ==
    LET leaves == Leaves(fdBlocks)
        dirtyLeaves[k \in 0..Len(leaves)] ==
            IF k = 0 THEN <<>>
            ELSE IF leaves[k].ptr \in fdDirty
            THEN Append(dirtyLeaves[k - 1], leaves[k].ptr)
            ELSE dirtyLeaves[k - 1]
        visited(x) ==
            /\ x.err = "nil"
            /\ [k \in 1..Len(x.dirtyLeafPaths) |->
                   childIPtr(x.st,
                       x.dirtyLeafPaths[k][Len(x.dirtyLeafPaths[k]) - 1]).BlockPointer]
               = dirtyLeaves[Len(leaves)]
        iterated(g) ==
            visited(GatherDirtyLeafPaths(
                        [st |-> g.st, dirtyLeafPaths |-> <<>>, oldPtrs |-> {},
                         err |-> "nil"],
                        g.block, 0))
    IN  (/\ fdBlocks[RootPtr].IsInd
         /\ \A b \in Indirects(fdBlocks) :
               /\ \A k \in 1..(Len(b.IPtrs) - 1) :
                     b.IPtrs[k].Off < b.IPtrs[k + 1].Off
               /\ Len(b.IPtrs) > 0 => b.IPtrs[1].Off = b.off
         /\ \A l \in 1..Len(leaves) :
               leaves[l].ptr \in fdDirty
               => \A a \in 1..Len(leaves[l].path) : leaves[l].path[a] \in fdDirty)
        => iterated(getter(WorkingState(fdBlocks, fdDirty, fdNextID), RootPtr,
                           "blockWrite"))



(***************************************************************************)
(* C23  Prefix on deadline.                                                *)
(***************************************************************************)
\* C23: a read whose context reaches its deadline during the fetch of child
\* blocks returns no error, and what it returns ends before the first leaf
\* of the range that was not fetched (a leaf whose fetch, or the fetch of
\* one of its ancestors, the deadline ended): none of that leaf's bytes is
\* returned, as zeros or otherwise, and no leaf to its right contributes.
C23_PrefixOnDeadline ==
    (/\ fdR.op = "read"
     /\ "late" \in DOMAIN fdR)
    => /\ fdR.err = "nil"
       /\ \A l \in 1..Len(Leaves(fdBlocks)) :
             LET leaf == Leaves(fdBlocks)[l]
             IN  (/\ \/ leaf.ptr \in fdR.late
                     \/ \E a \in 1..Len(leaf.path) : leaf.path[a] \in fdR.late
                  /\ leaf.off < fdR.off + fdR.len
                  /\ leaf.off + Len(leaf.Contents) > fdR.off)
                 => \/ fdR.n = 0
                    \/ fdR.off + fdR.n <= leaf.off



(***************************************************************************)
(* C24  Block-store errors are surfaced.                                   *)
(***************************************************************************)
\* C24, for undupChildrenInCopy: when a call of the getter or of ReadyBlock
\* made inside the operation returned an error, the operation returns an
\* error.
C24_ErrorsSurfaced ==
    (/\ fdW.op = "undupChildrenInCopy"
     /\ fdW.failed)
    => fdW.err # "nil"



(***************************************************************************)
(* C25  Violated interior invariants of the cycle fix are errors.          *)
(***************************************************************************)
\* C25: when fixRenameCycles is called with a renamed original that is on
\* the merged path of its new parent (a cycle), and the new parent's chain
\* has no renamed createOp of the new name, or the old parent has no
\* unmerged chain, or that chain has no rmOp of the old name, the call
\* returns an error: it neither panics nor returns nil.
C25_CycleFixErrors ==
    (/\ rcCall.op = "fixRenameCycles"
     /\ \E ptr \in DOMAIN rcRenamed :
           LET info == rcRenamed[ptr]
               pre == rcCall.pre
               np == info.originalNewParent
               old == info.originalOldParent
           IN  /\ np \in DOMAIN pre
               /\ pre[np].mostRecent \in DOMAIN rcMergedPaths
               /\ \E i \in 1..Len(rcMergedPaths[pre[np].mostRecent]) :
                     rcMergedPaths[pre[np].mostRecent][i] \in {ptr, ptr + 20}
               /\ \/ ~\E k \in 1..Len(pre[np].ops) :
                          /\ pre[np].ops[k].kind = "create"
                          /\ pre[np].ops[k].renamed
                          /\ pre[np].ops[k].name = info.newName
                  \/ old \notin DOMAIN pre
                  \/ ~\E k \in 1..Len(pre[old].ops) :
                          /\ pre[old].ops[k].kind = "rm"
                          /\ pre[old].ops[k].name = info.oldName)
    => rcCall.err \notin {"nil", "panic"}



(***************************************************************************)
(* C26  updateCurrInput reverts on failure.                                *)
(***************************************************************************)
\* C26: a step of updateCurrInput that returns an error, for a canceled task
\* or for a terminal revision below the current one (doResolve returns
\* then), leaves both components of currInput as they were, also when the
\* unmerged revision was raised before the merged one was found too low.
C26_RevertOnFailure ==
    [][\A i \in DOMAIN inputs :
          (/\ inputs[i].st = "running"
           /\ inputs[i].tpc = "update"
           /\ inputs'[i].st = "finished")
          => currInput' = currInput]_vars

\* A task that is not canceled is about to call updateCurrInput while
\* currInput leaves room for a greater unmerged and a lower merged terminal
\* revision, the case in which the unmerged revision is raised and reset.
C26_Witness ==
    \E i \in DOMAIN inputs :
        /\ inputs[i].st = "running"
        /\ inputs[i].tpc = "update"
        /\ ~inputs[i].canceled
        /\ \E revU, revM \in Revs :
              /\ revU > currInput.unmerged
              /\ revM < currInput.merged
              /\ BoundInput(currInput, revU, revM).err



(***************************************************************************)
(* C27  ready visits each dirty block once.                                *)
(***************************************************************************)
\* C27: after a ready that returns no error, the map it returns holds one
\* BlockInfo for each block it encoded, sent to the pointer the block had
\* before ready was called: no two of its entries are for the same prior
\* pointer and every prior pointer was a dirty pointer of the file then (a
\* block encoded twice has a second entry, under the pointer its first
\* encoding gave it).
C27_ReadyOnce ==
    (/\ fdW.op = "sync"
     /\ fdW.err = "nil")
    => /\ \A o \in fdW.oldPtrs :
             /\ o.ptr \in DOMAIN fdW.pre.blocks
             /\ o.ptr \in fdW.pre.dirty
       /\ \A o1, o2 \in fdW.oldPtrs : o1.ptr = o2.ptr => o1 = o2



(***************************************************************************)
(* C28  write reports every dirtied pointer.                               *)
(***************************************************************************)
\* C28: the dirtyPtrs of a write that returns no error hold every pointer
\* under which the write installed a block in the dirty cache, and the root
\* pointer when the root the write leaves is indirect.  (dirtyPtrs are the
\* keys of dirtyMap: a pointer is in it once.)
C28_DirtyPtrsReported ==
    (/\ fdW.op = "write"
     /\ fdW.err = "nil")
    => /\ fdW.cached \subseteq fdW.dirtyPtrs
       /\ fdBlocks[RootPtr].IsInd => RootPtr \in fdW.dirtyPtrs

\* A write into a synced file of two levels that dirtied a leaf, its parent
\* and the root and made no new block.
C28_Witness ==
    /\ fdW.op = "write"
    /\ fdW.err = "nil"
    /\ fdW.pre.dirty = {}
    /\ DOMAIN fdBlocks = DOMAIN fdW.pre.blocks
    /\ Cardinality(fdW.cached) = 3
    /\ \E l \in 1..Len(Leaves(fdBlocks)) :
          /\ Len(Leaves(fdBlocks)[l].path) = 2
          /\ fdW.cached = {Leaves(fdBlocks)[l].ptr,
                           Leaves(fdBlocks)[l].path[1],
                           Leaves(fdBlocks)[l].path[2]}



(***************************************************************************)
(* C29  The EncodedSize of the entry write returns.                        *)
(***************************************************************************)
\* C29 as stated: the directory entry a write of non-empty data returns
\* with no error has EncodedSize 0, also when the write only overwrites
\* bytes of existing leaves.
C29_EncodedSizeZero ==
    (/\ fdW.op = "write"
     /\ fdW.err = "nil")
    => fdW.newDe.EncodedSize = 0

\* C29, amended: the directory entry a write of non-empty data returns with
\* no error has EncodedSize 0 when the write made the file longer (its Size
\* is not the old entry's), and the EncodedSize of the old entry otherwise.
C29_EncodedSizeZeroWhenExtended ==
    (/\ fdW.op = "write"
     /\ fdW.err = "nil")
    => IF fdW.newDe.Size # fdW.pre.de.Size
       THEN fdW.newDe.EncodedSize = 0
       ELSE fdW.newDe.EncodedSize = fdW.pre.de.EncodedSize

\* A write made a synced file longer, and the entry it returned is cleared
\* of the encoded size the sync had left.
C29_Witness ==
    /\ fdW.op = "write"
    /\ fdW.err = "nil"
    /\ fdW.pre.de.EncodedSize # 0
    /\ fdW.newDe.Size > fdW.pre.de.Size
    /\ fdW.newDe.EncodedSize = 0



(***************************************************************************)
(* C30  locate finds the containing leaf.                                  *)
(***************************************************************************)
\* C30: on a tree whose pointers all lead to stored blocks and whose
\* indirect blocks have pointers of strictly increasing offsets, the first of them the offset the parent records for the block
\* (0 for the root), getFileBlockAtOffset(off) returns, for every off >= 0,
\* the leaf of the greatest offset not above off, that offset as startOff,
\* the parents and child indices that lead from the root to the leaf, and as
\* nextBlockStartOff the offset of the next leaf of the whole tree, or -1
\* for the rightmost leaf.
C30_Locate ==
    LET leaves == Leaves(fdBlocks)
        located(r, leaf, next) ==
            /\ r.err = "nil"
            /\ r.ptr = leaf.ptr
            /\ r.startOff = leaf.off
            /\ r.nextBlockStartOff = next
            /\ Len(r.parentBlocks) = Len(leaf.path)
            /\ \A k \in 1..Len(leaf.path) :
                  /\ r.parentBlocks[k].pblock = leaf.path[k]
                  /\ r.parentBlocks[k].childIndex
                        \in 1..Len(fdBlocks[leaf.path[k]].IPtrs)
                  /\ fdBlocks[leaf.path[k]].IPtrs[r.parentBlocks[k].childIndex]
                        .BlockPointer
                     = IF k < Len(leaf.path) THEN leaf.path[k + 1] ELSE leaf.ptr
    IN  (/\ \A p \in DOMAIN fdBlocks : \A k \in 1..Len(fdBlocks[p].IPtrs) :
               fdBlocks[p].IPtrs[k].BlockPointer \in DOMAIN fdBlocks
         /\ \A b \in Indirects(fdBlocks) :
            /\ Len(b.IPtrs) > 0
            /\ b.IPtrs[1].Off = b.off
            /\ \A k \in 1..(Len(b.IPtrs) - 1) : b.IPtrs[k].Off < b.IPtrs[k + 1].Off)
        => \A off \in 0..(MaxOff + MaxLen) :
              \E l \in 1..Len(leaves) :
                 /\ leaves[l].off <= off
                 /\ l < Len(leaves) => leaves[l + 1].off > off
                 /\ located(getFileBlockAtOffset(
                                WorkingState(fdBlocks, fdDirty, fdNextID),
                                RootPtr, off, "blockRead"),
                            leaves[l],
                            IF l < Len(leaves) THEN leaves[l + 1].off ELSE -1)

\* A tree of two levels with ordered offsets in which the leaf located is
\* the last child of its parent and the next leaf is a cousin's.
C30_Witness ==
    LET leaves == Leaves(fdBlocks)
    IN  /\ \A p \in DOMAIN fdBlocks : \A k \in 1..Len(fdBlocks[p].IPtrs) :
              fdBlocks[p].IPtrs[k].BlockPointer \in DOMAIN fdBlocks
        /\ \A b \in Indirects(fdBlocks) :
              /\ Len(b.IPtrs) > 0
              /\ b.IPtrs[1].Off = b.off
              /\ \A k \in 1..(Len(b.IPtrs) - 1) :
                    b.IPtrs[k].Off < b.IPtrs[k + 1].Off
        /\ \E l \in 1..(Len(leaves) - 1) :
              /\ Len(leaves[l].path) = 2
              /\ Len(leaves[l + 1].path) = 2
              /\ leaves[l].path[2] # leaves[l + 1].path[2]
              /\ leaves[l + 1].off > leaves[l].off + 1
              /\ getFileBlockAtOffset(WorkingState(fdBlocks, fdDirty, fdNextID),
                                      RootPtr, leaves[l].off + 1, "blockRead")
                    .nextBlockStartOff = leaves[l + 1].off



(***************************************************************************)
(* C31  undupChildrenInCopy returns the BlockInfos of all children.        *)
(***************************************************************************)
\* C31: after undupChildrenInCopy returns without error on an indirect top
\* block of n pointers, the list it returns has n entries, and the i-th is
\* the BlockInfo the top block's i-th pointer ends with: the info ReadyBlock
\* made for a pointer with a RefNonce, the info the pointer had otherwise.
C31_BlockInfosOfChildren ==
    (/\ fdW.op = "undupChildrenInCopy"
     /\ fdW.err = "nil"
     /\ fdW.topBlock.IsInd)
    => /\ Len(fdW.blockInfos) = Len(fdW.topBlock.IPtrs)
       /\ \A k \in 1..Len(fdW.topBlock.IPtrs) :
             /\ k \in DOMAIN fdW.blockInfos
             /\ fdW.blockInfos[k].BlockPointer
                    = fdW.topBlock.IPtrs[k].BlockPointer
             /\ fdW.blockInfos[k].EncodedSize
                    = fdW.topBlock.IPtrs[k].EncodedSize



(***************************************************************************)
(* C32  Recreate ops are installed ahead of existing ops.                  *)
(***************************************************************************)
\* C32: after addRecreateOpsToUnmergedChains returns without error, every
\* recreate op is in the unmerged chain of the original pointer of the
\* directory it creates into, ahead of every op the chain held before the
\* call (a chain that did not exist held none), and its finalPath is a
\* merged path that ends at that directory.
C32_RecreateOpsInstalled ==
    (/\ rcCall.op = "addRecreateOpsToUnmergedChains"
     /\ rcCall.err = "nil")
    => \A k \in 1..Len(rcCall.recreateOps) :
          LET rop == rcCall.recreateOps[k]
              dir == IF rop.Unref > 20 THEN rop.Unref - 20 ELSE rop.Unref
              before == IF dir \in DOMAIN rcCall.pre
                        THEN rcCall.pre[dir].ops ELSE <<>>
          IN  /\ dir \in DOMAIN rcChains
              /\ Len(rcChains[dir].ops) >= Len(before)
              /\ SubSeq(rcChains[dir].ops,
                        Len(rcChains[dir].ops) - Len(before) + 1,
                        Len(rcChains[dir].ops)) = before
              /\ \E j \in 1..(Len(rcChains[dir].ops) - Len(before)) :
                    LET op == rcChains[dir].ops[j]
                    IN  /\ op.name = rop.name
                        /\ op.Unref = rop.Unref
                        /\ Len(op.finalPath) > 0
                        /\ op.finalPath[Len(op.finalPath)].BlockPointer
                               \in {dir, dir + 20}
                        /\ \E u \in DOMAIN rcMergedPaths :
                              /\ Len(rcMergedPaths[u]) >= Len(op.finalPath)
                              /\ SubSeq(rcMergedPaths[u], 1, Len(op.finalPath))
                                     = op.finalPath

\* Two recreate ops were installed, one of them into a chain that held an
\* op, and one took its finalPath from the lookup table.
C32_Witness ==
    /\ rcCall.op = "addRecreateOpsToUnmergedChains"
    /\ rcCall.err = "nil"
    /\ Len(rcCall.recreateOps) >= 2
    /\ \E n \in DOMAIN rcCall.pre :
          /\ Len(rcCall.pre[n].ops) > 0
          /\ Len(rcChains[n].ops) > Len(rcCall.pre[n].ops)
    /\ DOMAIN rcMergedPaths # DOMAIN rcCall.preMergedPaths



(***************************************************************************)
(* C33  The panic on an empty response channel is unreachable.             *)
(***************************************************************************)
\* C33: in getLeafBlocksForOffsetRange with prefixOk = false, at every level
\* of the tree and whatever the order of the goroutines' steps, when all the
\* goroutines of a call's error group have returned and the group has no
\* error, the response channel of each of them holds a response; the call
\* never panics.
C33_NoPanic ==
    (/\ fdR.op = "getLeafBlocksForOffsetRange"
     /\ ~fdR.prefixOk)
    => /\ fdR.err # "panic"
       /\ \A id \in DOMAIN fdR.pc :
             LET children == {c \in DOMAIN fdR.pc :
                                 /\ Len(c) = Len(id) + 1
                                 /\ SubSeq(c, 1, Len(id)) = id}
             IN  (/\ fdR.pc[id] = "wait"
                  /\ \A c \in children : fdR.pc[c] = "returned"
                  /\ fdR.egErr[id] = "nil")
                 => children \subseteq fdR.resp

\* With prefixOk = false, a call below the top block whose two goroutines
\* have returned without error, while a goroutine of the top call has not
\* fetched its block yet.
C33_Witness ==
    /\ fdR.op = "getLeafBlocksForOffsetRange"
    /\ ~fdR.prefixOk
    /\ \E id \in DOMAIN fdR.pc :
          /\ Len(id) = 1
          /\ fdR.pc[id] = "wait"
          /\ fdR.egErr[id] = "nil"
          /\ Cardinality({c \in DOMAIN fdR.pc :
                             /\ Len(c) = 2
                             /\ c[1] = id[1]
                             /\ fdR.pc[c] = "returned"}) = 2
          /\ \A c \in DOMAIN fdR.pc :
                (Len(c) = 2 /\ c[1] = id[1]) => fdR.pc[c] = "returned"
          /\ \E o \in DOMAIN fdR.pc : Len(o) = 1 /\ fdR.pc[o] = "fetch"



(***************************************************************************)
(* C34  Resolve and Shutdown never meet on a closed channel.               *)
(***************************************************************************)
\* C34: under every interleaving of the Resolve calls, the Shutdown call and
\* the consumer loop, no Resolve call is in its send on inputChan once the
\* channel is closed, and every input a Resolve call sends is received by
\* the consumer.
C34_NoSendOnClosedChannel ==
    /\ [](\A k \in Ids : inputs[k].st = "sending" => ~chanClosed)
    /\ \A i \in 1..MaxInputs :
          (i \in Ids /\ inputs[i].st = "sending")
             ~> (i \in Ids /\ inputs[i].st \in {"dequeued", "accepted", "running",
                                                "discarded", "finished"})

\* Shutdown waits for shutdownLock while a Resolve call holds it in its send
\* and the consumer is busy with an earlier input.
C34_Witness ==
    /\ shutdownPc = "waiting"
    /\ ReadLocked
    /\ consumerPc \in {"filter", "start", "discard"}



(***************************************************************************)
(* C35  A preempted task never overwrites currInput.                       *)
(***************************************************************************)
\* C35: the updateCurrInput of a task whose context the consumer has
\* canceled writes nothing to currInput and returns an error (its doResolve
\* returns), at whatever moment of the consumer's and the other tasks'
\* steps it runs.
C35_PreemptedTaskWritesNothing ==
    [][\A i \in Ids :
          (/\ inputs[i].st = "running"
           /\ inputs[i].tpc = "update"
           /\ inputs[i].canceled
           /\ inputs'[i] # inputs[i])
          => /\ currInput' = currInput
             /\ inputs'[i].st = "finished"]_vars

\* A task canceled for a newer input, now currInput, is about to call
\* updateCurrInput.
C35_Witness ==
    \E i \in Ids :
        /\ inputs[i].st = "running"
        /\ inputs[i].tpc = "update"
        /\ inputs[i].canceled
        /\ cancel # i
        /\ cancel # 0
        /\ \/ currInput.unmerged > inputs[i].unmerged
           \/ currInput.merged > inputs[i].merged



(***************************************************************************)
(* C36  The resolver is deadlock-free and drains.                          *)
(***************************************************************************)
\* C36: under every interleaving of the Resolve calls, Shutdown, Wait, the
\* consumer and the tasks, with collaborator calls that return, a Resolve
\* call in its send on inputChan gets its input received, a Shutdown call
\* waiting for shutdownLock gets it, and once Shutdown has returned the
\* counter of outstanding submissions reaches zero and a Wait call in its
\* select returns.
C36_DeadlockFreeAndDrains ==
    /\ \A i \in 1..MaxInputs :
          (i \in Ids /\ inputs[i].st = "sending")
             ~> (i \in Ids /\ inputs[i].st # "sending")
    /\ (shutdownPc = "waiting") ~> (shutdownPc = "done")
    /\ (shutdownPc = "done") ~> (inputGroup = 0)
    /\ (shutdownPc = "done" /\ waitPc = "select")
          ~> (waitPc \in {"retNil", "retErr"})

\* Shutdown has returned, the consumer has left its loop, a task has
\* returned, the counter is zero and Wait has returned nil.
C36_Witness ==
    /\ shutdownPc = "done"
    /\ consumerPc = "exited"
    /\ inputGroup = 0
    /\ waitPc = "retNil"
    /\ \E k \in Ids : inputs[k].st = "finished"
    /\ waitLen > 0



(***************************************************************************)
(* C37  truncateShrink leaves nothing past the new size.                   *)
(***************************************************************************)
\* C37: after truncateShrink(size) returns without error, whatever the depth
\* of the tree, every leaf reachable from the root has an offset below size
\* or is the leaf at size with no bytes; every indirect block above a leaf
\* that is kept (a leaf of the old tree at or below size) is still above it
\* and is not in unrefs; and the file from 0 to its end is the first size
\* bytes of the old file.
C37_NothingPastNewSize ==
    (/\ fdW.op = "truncateShrink"
     /\ fdW.err = "nil")
    => LET old == Leaves(fdW.pre.blocks)
           new == Leaves(fdBlocks)
       IN  /\ \A l \in 1..Len(new) :
                 \/ new[l].off < fdW.size
                 \/ new[l].off = fdW.size /\ new[l].Contents = <<>>
           /\ \A l \in 1..Len(old) :
                 old[l].off <= fdW.size
                 => /\ \E k \in 1..Len(new) :
                          new[k].ptr = old[l].ptr /\ new[k].path = old[l].path
                    /\ \A a \in 1..Len(old[l].path), k \in 1..Len(fdW.unrefs) :
                          fdW.unrefs[k].BlockPointer # old[l].path[a]
           /\ TreeEnd(fdBlocks) = fdW.size
           /\ BytesIn(fdBlocks, 0, fdW.size) = BytesIn(fdW.pre.blocks, 0, fdW.size)



(***************************************************************************)
(* C38  split preserves the file's content.                                *)
(***************************************************************************)
\* C38: after split returns without error on an indirect file, holes
\* between a dirty leaf and its right neighbour included, the file has the
\* length it had and the bytes from 0 to its end are the bytes it had.
C38_SplitPreservesContent ==
    (/\ fdW.op = "split"
     /\ fdW.err = "nil"
     /\ fdW.pre.blocks[RootPtr].IsInd)
    => /\ TreeEnd(fdBlocks) = TreeEnd(fdW.pre.blocks)
       /\ BytesIn(fdBlocks, 0, TreeEnd(fdW.pre.blocks))
             = BytesIn(fdW.pre.blocks, 0, TreeEnd(fdW.pre.blocks))



(***************************************************************************)
(* C39  write terminates.                                                  *)
(***************************************************************************)
\* C39: on a tree whose recorded offsets are in order, a write of any data
\* at any offset leaves its loop within the turns it is given; a turn that
\* copies no bytes makes at most one new leaf; and after a turn that made a
\* new right block and shifted it into a hole, the lookup of the next
\* offset to write returns that new leaf.
C39_WriteTerminates ==
    [][(/\ fdW'.op = "write"
        /\ fdOps' = fdOps + 1
        /\ \A p \in DOMAIN fdBlocks :
              \A k \in 1..Len(fdBlocks[p].IPtrs) :
                 fdBlocks[p].IPtrs[k].BlockPointer \in DOMAIN fdBlocks
        /\ \A b \in Indirects(fdBlocks) :
              /\ Len(b.IPtrs) > 0
              /\ b.IPtrs[1].Off = b.off
              /\ \A k \in 1..(Len(b.IPtrs) - 1) :
                    b.IPtrs[k].Off < b.IPtrs[k + 1].Off
        /\ \A l \in 1..(Len(Leaves(fdBlocks)) - 1) :
              Leaves(fdBlocks)[l].off + Len(Leaves(fdBlocks)[l].Contents)
                  <= Leaves(fdBlocks)[l + 1].off)
       => LET data == fdW'.data
              off == fdW'.off
              g == getter(WorkingState(fdBlocks, fdDirty, fdNextID), RootPtr,
                          "blockWrite")
              After(k) ==
                  WriteLoop([st |-> g.st, topBlock |-> g.block, nCopied |-> 0,
                             oldDe |-> fdDe, newDe |-> fdDe, dirtyMap |-> {},
                             unrefs |-> <<>>, newlyDirtiedChildBytes |-> 0,
                             oldSizeWithoutHoles |-> fdDe.Size, err |-> "nil",
                             turns |-> k],
                            data, off)
              NewLeaves(a, b) ==
                  {p \in a.st.nextID..(b.st.nextID - 1) :
                      /\ p \in DOMAIN b.st.cache
                      /\ ~b.st.heap[b.st.cache[p]].IsInd
                      /\ b.st.cache[p] # a.topBlock}
          IN  /\ fdW'.err # "no progress"
              /\ \A k \in 1..(2 * Len(data) + 2) :
                    \E a \in {After(k - 1)} :
                      a.err = "no progress" =>
                        \E b \in {After(k)} :
                          \E l \in {getFileBlockAtOffset(
                                        a.st, a.topBlock, off + a.nCopied,
                                        "blockWrite")} :
                            b.err \in {"nil", "no progress"} =>
                              /\ b.nCopied = a.nCopied
                                    => Cardinality(NewLeaves(a, b)) <= 1
                              /\ (/\ b.nCopied < Len(data)
                                  /\ off + b.nCopied < l.nextBlockStartOff)
                                    => \E n \in {getFileBlockAtOffset(
                                                     b.st, b.topBlock,
                                                     off + b.nCopied,
                                                     "blockWrite")} :
                                         /\ n.err = "nil"
                                         /\ n.ptr \in NewLeaves(a, b)]_vars



(***************************************************************************)
(* C40  The tree stays balanced.                                           *)
(***************************************************************************)
\* C40: after any sequence of write, truncateExtend, truncateShrink and
\* split that return without error, every leaf reachable from the root is
\* at the same depth and every indirect block reachable from the root has
\* at least one child: a call that returns without error on such a tree
\* leaves such a tree.
C40_Balanced ==
    [][LET Balanced(blocks) ==
               /\ \A p \in DOMAIN blocks :
                     \A k \in 1..Len(blocks[p].IPtrs) :
                        blocks[p].IPtrs[k].BlockPointer \in DOMAIN blocks
               /\ \A l, m \in 1..Len(Leaves(blocks)) :
                     Len(Leaves(blocks)[l].path) = Len(Leaves(blocks)[m].path)
               /\ \A b \in Indirects(blocks) : Len(b.IPtrs) > 0
       IN  (/\ fdOps' = fdOps + 1
            /\ fdW'.op \in {"write", "truncateExtend", "truncateShrink", "split"}
            /\ fdW'.err = "nil"
            /\ Balanced(fdBlocks))
           => Balanced(fdBlocks')]_vars

\* A split that returned without error made a new leaf on a file of two
\* leaves or more.
C40_Witness ==
    /\ fdW.op = "split"
    /\ fdW.err = "nil"
    /\ \A p \in DOMAIN fdBlocks :
          \A k \in 1..Len(fdBlocks[p].IPtrs) :
             fdBlocks[p].IPtrs[k].BlockPointer \in DOMAIN fdBlocks
    /\ Len(Leaves(fdW.pre.blocks)) >= 2
    /\ Len(Leaves(fdBlocks)) > Len(Leaves(fdW.pre.blocks))
    /\ \A l \in 1..Len(Leaves(fdBlocks)) : Len(Leaves(fdBlocks)[l].path) = 1


====
